---- MODULE Spec2Model ----
(***************************************************************************)
(* Table reconstruction engine of src/table_normalizer.py                  *)
(* (TableNormalizer: split-table groups, classification, colspan/rowspan   *)
(* inference, style cleaning, hyphenation repair).                         *)
(*                                                                         *)
(* Representation.                                                         *)
(*  - a text is a sequence of one-character strings;                       *)
(*  - a source cell (td/th element) is a record                            *)
(*      [tag, text, class, width, colspan, rowspan, style];                *)
(*    class is the sequence of the class attribute's tokens, a token       *)
(*    "L14" being [pre |-> "L", dig |-> TRUE, n |-> 14] and a token whose  *)
(*    suffix is not all digits ("Lx") having dig = FALSE;                  *)
(*    width/colspan/rowspan are attribute values [k, n]: k = "none" when   *)
(*    the attribute is absent, k = "int" for a decimal number n;           *)
(*    style is the sequence of the inline declarations (the "; " joiner    *)
(*    is implicit);                                                        *)
(*  - a source table is [id, class, border, style, rows], rows a sequence  *)
(*    of tr elements, each a sequence of source cells;                     *)
(*  - NormalizedCell / NormalizedRow / NormalizedTable are records with    *)
(*    the dataclasses' field names.  A NormalizedCell also carries two     *)
(*    history fields the program does not have: id, the source cell it was *)
(*    extracted from, and absorbed, the ids of the cells merged into it.   *)
(*    width = None is written 0: the code only ever tests `cell.width` for *)
(*    truth, which None and 0 both fail.                                   *)
(***************************************************************************)
EXTENDS Integers, Sequences, FiniteSets, TLC

VARIABLES
  pc,          \* where the run is
  doc,         \* the document: the sequence of sibling nodes
  all_tables,  \* the list a pass iterates over (ids of tables)
  i,           \* the index of that loop
  processed,   \* processed_tables of _normalize_tables_in_soup
  arg,         \* the input of a run on one table or one value
  mid,         \* an intermediate value: the extracted rows, a style cleaned once
  norm,        \* normalized_rows before _apply_rowspan
  res,         \* the result
  ghost        \* history: ids of the cells _apply_rowspan marked for removal

vars == <<pc, doc, all_tables, i, processed, arg, mid, norm, res, ghost>>

----------------------------------------------------------------------------
(* Bounds of the model                                                     *)

\* rows of a table drawn in SpecTable
MaxRows == 3
\* data tables that follow the placeholder in a document of Spec
MaxGroupTables == 3

----------------------------------------------------------------------------
(* Generic helpers                                                         *)

Idle == <<>>

Range(s) == {s[k] : k \in 1..Len(s)}

RECURSIVE Concat(_)
Concat(ss) == IF ss = <<>> THEN <<>> ELSE Head(ss) \o Concat(Tail(ss))

\* the sequences over S of length 0..n
SeqsUpTo(S, n) == UNION {[1..k -> S] : k \in 0..n}

SetMax(S) == CHOOSE x \in S : \A y \in S : y <= x
SetMin(S) == CHOOSE x \in S : \A y \in S : x <= y

Abs(x) == IF x < 0 THEN -x ELSE x

----------------------------------------------------------------------------
(* Characters and texts                                                    *)

LowerLetters == {"a", "b", "c", "d", "e", "f", "o"}
UpperLetters == {"A", "B", "C", "D", "E", "F", "O", "X", "Y", "T", "U"}
Digits == {"0", "1", "2", "3"}
\* \w of Python's re (str patterns): letters, digits and the underscore
WordChars == LowerLetters \cup UpperLetters \cup Digits \cup {"_"}

ToUpper(c) ==
  CASE c = "a" -> "A" [] c = "b" -> "B" [] c = "c" -> "C" [] c = "d" -> "D"
    [] c = "e" -> "E" [] c = "f" -> "F" [] c = "o" -> "O"
    [] OTHER -> c

UpperText(t) == [k \in 1..Len(t) |-> ToUpper(t[k])]

\* str.isdigit(): non-empty and every character a digit
IsDigitText(t) == Len(t) > 0 /\ \A k \in 1..Len(t) : t[k] \in Digits

\* kw in text: substring test
ContainsText(t, kw) ==
  \E k \in 0..(Len(t) - Len(kw)) : SubSeq(t, k + 1, k + Len(kw)) = kw

RECURSIVE CollapseSpaces(_)
\* re.sub(r'\s+', ' ', text)
CollapseSpaces(t) ==
  IF Len(t) < 2 THEN t
  ELSE IF t[1] = " " /\ t[2] = " " THEN CollapseSpaces(Tail(t))
  ELSE <<t[1]>> \o CollapseSpaces(Tail(t))

RECURSIVE StripLeft(_)
StripLeft(t) == IF t # <<>> /\ t[1] = " " THEN StripLeft(Tail(t)) ELSE t

RECURSIVE StripRight(_)
StripRight(t) ==
  IF t # <<>> /\ t[Len(t)] = " " THEN StripRight(SubSeq(t, 1, Len(t) - 1)) ELSE t

StripText(t) == StripRight(StripLeft(t))

\* TableNormalizer._clean_text
CleanText(t) == IF t = <<>> THEN <<>> ELSE StripText(CollapseSpaces(t))

RECURSIVE JoinTexts(_, _)
\* sep.join(parts)
JoinTexts(parts, sep) ==
  IF parts = <<>> THEN <<>>
  ELSE IF Len(parts) = 1 THEN parts[1]
  ELSE parts[1] \o sep \o JoinTexts(Tail(parts), sep)

RECURSIVE SubHyphen(_)
\* re.sub(r'(\w)- +(\w)', r'\1\2', text): leftmost matches, never overlapping;
\* the scan resumes after the second word character of a match
SubHyphen(t) ==
  IF t = <<>> THEN <<>>
  ELSE IF /\ Len(t) >= 4
          /\ t[1] \in WordChars
          /\ t[2] = "-"
          /\ t[3] = " "
       THEN LET rest == StripLeft(SubSeq(t, 3, Len(t)))
            IN IF rest # <<>> /\ rest[1] \in WordChars
               THEN <<t[1], rest[1]>> \o SubHyphen(Tail(rest))
               ELSE <<t[1]>> \o SubHyphen(Tail(t))
       ELSE <<t[1]>> \o SubHyphen(Tail(t))

\* TableNormalizer._remove_hyphenation
RemoveHyphenation(t) == IF t = <<>> THEN t ELSE SubHyphen(t)

----------------------------------------------------------------------------
(* Source elements                                                         *)

NoAttr == [k |-> "none", n |-> 0]
IntAttr(v) == [k |-> "int", n |-> v]
\* an attribute value that is no decimal number, such as "x"
TextAttr == [k |-> "text", n |-> 0]

\* a class token such as "L14"; "Lx" has dig = FALSE
Cls(p, v) == <<[pre |-> p, dig |-> TRUE, n |-> v]>>
ClsNoDigits(p) == <<[pre |-> p, dig |-> FALSE, n |-> 0]>>
NoClass == <<>>

Cell(tg, txt, cls, w) ==
  [tag |-> tg, text |-> txt, class |-> cls, width |-> w,
   colspan |-> NoAttr, rowspan |-> NoAttr, style |-> <<>>]

TD(txt, cls, w) == Cell("td", txt, cls, IntAttr(w))
TDnw(txt, cls) == Cell("td", txt, cls, NoAttr)
TH(txt, cls, w) == Cell("th", txt, cls, IntAttr(w))

Table(ident, cls, rws) ==
  [kind |-> "table", id |-> ident, class |-> cls, border |-> NoAttr,
   style |-> <<>>, rows |-> rws]

\* tr.find_all(['td', 'th'])
CellsOf(tr) == tr
\* tr.find_all('td')
TdCellsOf(tr) == SelectSeq(tr, LAMBDA c : c.tag = "td")

\* Tag.get_text() of a table: the cells' texts in document order
RowText(tr) == Concat([k \in 1..Len(tr) |-> tr[k].text])
TableText(t) == Concat([r \in 1..Len(t.rows) |-> RowText(t.rows[r])])

----------------------------------------------------------------------------
(* Row/Cell Extractor: TableNormalizer._extract_rows                       *)

ALIGN_PREFIXES == {"L", "C", "R", "J"}

AlignName(p) ==
  CASE p = "L" -> "left" [] p = "C" -> "center" [] p = "R" -> "right"
    [] p = "J" -> "justify"

\* index of the first class token with a prefix of ALIGN_PREFIXES, 0 if none
FirstAlignClass(classes) ==
  LET hits == {k \in 1..Len(classes) : classes[k].pre \in ALIGN_PREFIXES}
  IN IF hits = {} THEN 0 ELSE SetMin(hits)

\* re.match(r'(\d+)', width_attr) on cell.get('width', '')
WidthOf(a) == IF a.k = "int" THEN a.n ELSE 0

\* int(cell.get('colspan', 1)); for a value that is no number int() raises
\* ValueError, which is SpanRaises: the callers test it before they extract
SpanOf(a) == IF a.k = "int" THEN a.n ELSE 1
SpanRaises(a) == a.k = "text"

BottomBit(code) == code % 2 = 1
TopBit(code) == (code \div 2) % 2 = 1

\* int(num_part)
BorderCodeOf(tok) == tok.n

ExtractCell(cell, ident) ==
  LET k == FirstAlignClass(cell.class)
      isnum == k > 0 /\ cell.class[k].dig
      code == IF isnum THEN BorderCodeOf(cell.class[k]) ELSE 0
  IN [text |-> CleanText(cell.text),
      colspan |-> SpanOf(cell.colspan),
      rowspan |-> SpanOf(cell.rowspan),
      width |-> WidthOf(cell.width),
      align |-> IF k > 0 THEN AlignName(cell.class[k].pre) ELSE "left",
      is_header |-> cell.tag = "th",
      has_bottom_border |-> IF isnum THEN BottomBit(code) ELSE TRUE,
      has_top_border |-> IF isnum THEN TopBit(code) ELSE FALSE,
      border_code |-> code,
      id |-> ident,
      absorbed |-> <<>>]

NormalizedRow(cs, hdr, coln) ==
  [cells |-> cs, is_header |-> hdr, is_column_numbers |-> coln]

ExtractRow(t, r) ==
  NormalizedRow([c \in 1..Len(t.rows[r]) |-> ExtractCell(t.rows[r][c], <<t.id, r, c>>)],
                FALSE, FALSE)

\* _extract_rows raises: int() of a colspan or rowspan that is no number
ExtractRowsRaises(t) ==
  \E r \in 1..Len(t.rows) : \E c \in 1..Len(t.rows[r]) :
    SpanRaises(t.rows[r][c].colspan) \/ SpanRaises(t.rows[r][c].rowspan)

\* rows without cells are dropped
ExtractRows(t) ==
  LET all == [r \in 1..Len(t.rows) |-> ExtractRow(t, r)]
  IN SelectSeq(all, LAMBDA row : row.cells # <<>>)

----------------------------------------------------------------------------
(* Table Classifier                                                        *)

\* stands for the eight keywords of form_keywords ('НАРЯД', 'ПРОТОКОЛ', ...)
FORM_KEYWORDS == {<<"F", "O">>}

HasFormKeywords(t) == \E kw \in FORM_KEYWORDS : ContainsText(UpperText(t), kw)

\* cell_counts of _is_form_table_group: per tr, the number of td elements,
\* rows without any td left out
TdCounts(tables) ==
  UNION {{Len(TdCellsOf(tables[t].rows[r])) : r \in 1..Len(tables[t].rows)} :
           t \in 1..Len(tables)} \ {0}

\* ' '.join(all_text)
GroupText(tables) ==
  JoinTexts([t \in 1..Len(tables) |-> TableText(tables[t])], <<" ">>)

\* TableNormalizer._is_form_table_group
IsFormTableGroup(tables) ==
  IF Len(tables) < 3 THEN FALSE
  ELSE LET unique_counts == TdCounts(tables)
       IN IF Cardinality(unique_counts) < 4 THEN FALSE
          ELSE IF Cardinality(unique_counts) >= 5 THEN TRUE
          ELSE IF Cardinality(unique_counts) >= 4 /\ HasFormKeywords(GroupText(tables))
               THEN TRUE
          ELSE FALSE

\* the classes that _is_title_table reads a border code from: cls[0] in 'LCR'
TitleBorderPrefixes == {"L", "C", "R"}

\* TableNormalizer._is_title_table
IsTitleTable(t) ==
  /\ Len(t.rows) <= 3
  /\ \A r \in 1..Len(t.rows) :
       /\ Len(CellsOf(t.rows[r])) = 1
       /\ LET cell == t.rows[r][1]
          IN /\ \A k \in 1..Len(cell.class) :
                  ~(/\ cell.class[k].pre \in TitleBorderPrefixes
                    /\ cell.class[k].dig
                    /\ cell.class[k].n > 0)
             /\ (cell.width.k = "int" => cell.width.n >= 500)

\* TableNormalizer._extract_table_title: the non-empty cell texts, later joined
\* by '<br/>'; None is the empty sequence
TitleLines(t) ==
  LET texts == Concat([r \in 1..Len(t.rows) |->
                         [c \in 1..Len(t.rows[r]) |-> CleanText(t.rows[r][c].text)]])
  IN SelectSeq(texts, LAMBDA x : x # <<>>)

ExtractTableTitle(t) == JoinTexts(TitleLines(t), <<"<br/>">>)

HasBorderedCells(rows) ==
  \E r \in 1..Len(rows) : \E c \in 1..Len(rows[r].cells) :
     rows[r].cells[c].border_code > 0

\* TableNormalizer._is_data_table
IsDataTable(rows) ==
  IF Len(rows) < 2 THEN FALSE
  ELSE IF ~HasBorderedCells(rows) THEN FALSE
  ELSE LET col_counts == {Len(rows[r].cells) : r \in 1..Len(rows)}
           max_cols == SetMax(col_counts)
           min_cols == SetMin(col_counts)
       IN IF max_cols = min_cols /\ max_cols >= 2 THEN TRUE
          ELSE IF min_cols >= 2 /\ max_cols <= min_cols * 2 THEN TRUE
          ELSE FALSE

----------------------------------------------------------------------------
(* Layout Resolver                                                         *)

NormalizedTable(rws, ttl) == [rows |-> rws, title |-> ttl]

\* title = None
NoTitle == <<>>

\* NormalizedTable.to_html with the block of its <thead> taken from rows that
\* carry the column-index flag only
HeaderRowsByIndexFlagOnly(nt) ==
  SelectSeq(nt.rows, LAMBDA row : row.is_column_numbers)

\* header_rows of NormalizedTable.to_html: the rows of the <thead> block
HeaderRows(nt) ==
  SelectSeq(nt.rows, LAMBDA row : row.is_header \/ row.is_column_numbers)

\* data_rows of NormalizedTable.to_html: the rows of the <tbody> block
DataRows(nt) ==
  SelectSeq(nt.rows, LAMBDA row : ~(row.is_header \/ row.is_column_numbers))

CellCounts(rows) == {Len(rows[r].cells) : r \in 1..Len(rows)}

CellTexts(rows) ==
  Concat([r \in 1..Len(rows) |-> [c \in 1..Len(rows[r].cells) |-> rows[r].cells[c].text]])

\* TableNormalizer._is_form_table
IsFormTable(rows) ==
  IF Len(rows) < 5 THEN FALSE
  ELSE LET unique_counts == CellCounts(rows)
           first_rows_text ==
             JoinTexts(CellTexts(SubSeq(rows, 1, IF Len(rows) < 10 THEN Len(rows) ELSE 10)),
                       <<" ">>)
       IN IF Cardinality(unique_counts) <= 2 THEN FALSE
          ELSE IF Cardinality(unique_counts) >= 4 /\ HasFormKeywords(first_rows_text)
               THEN TRUE
          ELSE IF Cardinality(unique_counts) >= 5 THEN TRUE
          ELSE FALSE

NumericCells(row) ==
  Cardinality({c \in 1..Len(row.cells) : IsDigitText(StripText(row.cells[c].text))})

\* numeric_cells >= len(texts) * 0.7 and len(texts) >= 2  (in tenths)
LooksLikeColumnNumbers(row) ==
  /\ 10 * NumericCells(row) >= 7 * Len(row.cells)
  /\ Len(row.cells) >= 2

\* col_numbers_idx of _analyze_and_normalize, rows counted from 1; None is 0
ColNumbersIdx(rows) ==
  LET hits == {r \in 1..Len(rows) : LooksLikeColumnNumbers(rows[r])}
  IN IF hits = {} THEN 0 ELSE SetMin(hits)

RowWidths(row) == [c \in 1..Len(row.cells) |-> row.cells[c].width]
AllHaveWidth(row) == \A c \in 1..Len(row.cells) : row.cells[c].width # 0

\* TableNormalizer._find_canonical_widths
FindCanonicalWidths(rows, col_numbers_idx) ==
  IF /\ col_numbers_idx # 0
     /\ col_numbers_idx <= Len(rows)
     /\ AllHaveWidth(rows[col_numbers_idx])
     /\ Len(rows[col_numbers_idx].cells) >= 2
  THEN RowWidths(rows[col_numbers_idx])
  ELSE LET ok == {r \in 1..Len(rows) : AllHaveWidth(rows[r])}
           \* len(widths) > best_count: the first of the rows with the most cells
           best == {r \in ok : \A q \in ok : Len(rows[q].cells) <= Len(rows[r].cells)}
       IN IF best = {} THEN <<>> ELSE RowWidths(rows[SetMin(best)])

RECURSIVE CumulativePositions(_, _)
\* canonical_positions: [0, w1, w1+w2, ...]
CumulativePositions(widths, total) ==
  IF widths = <<>> THEN <<total>>
  ELSE <<total>> \o CumulativePositions(Tail(widths), total + Head(widths))

\* _find_nearest_column with the search ending before the last boundary
FindNearestColumnBeforeLast(position, canonical_positions) ==
  LET n == Len(canonical_positions) - 1
      diff(k) == Abs(canonical_positions[k] - position)
      best == {k \in 1..n : \A q \in 1..n : diff(k) <= diff(q)}
  IN SetMin(best) - 1

\* TableNormalizer._find_nearest_column: the first index of least distance
FindNearestColumn(position, canonical_positions) ==
  LET n == Len(canonical_positions)
      diff(k) == Abs(canonical_positions[k] - position)
      best == {k \in 1..n : \A q \in 1..n : diff(k) <= diff(q)}
  IN SetMin(best) - 1

RECURSIVE NormalizeCellsFrom(_, _, _, _, _)
NormalizeCellsFrom(cells, k, current_pos, normalized, canonical_widths) ==
  IF k > Len(cells) THEN normalized
  ELSE LET cell == cells[k]
           cell_width == cell.width
           canonical_positions == CumulativePositions(canonical_widths, 0)
       IN IF cell_width = 0
          THEN LET out == Append(normalized,
                                 [cell EXCEPT !.colspan = 1, !.width = 0])
                   at == IF Len(out) - 1 < Len(canonical_widths) - 1
                         THEN Len(out) - 1 ELSE Len(canonical_widths) - 1
               IN NormalizeCellsFrom(cells, k + 1, current_pos + canonical_widths[at + 1],
                                     out, canonical_widths)
          ELSE LET cell_end == current_pos + cell_width
                   start_col == FindNearestColumn(current_pos, canonical_positions)
                   end_col == FindNearestColumn(cell_end, canonical_positions)
                   colspan == IF end_col - start_col > 1 THEN end_col - start_col ELSE 1
               IN NormalizeCellsFrom(cells, k + 1, cell_end,
                                     Append(normalized, [cell EXCEPT !.colspan = colspan]),
                                     canonical_widths)

\* TableNormalizer._normalize_row_cells
NormalizeRowCells(cells, canonical_widths) ==
  IF canonical_widths = <<>> THEN cells
  ELSE NormalizeCellsFrom(cells, 1, 0, <<>>, canonical_widths)

SetHeader(cells, hdr) == [c \in 1..Len(cells) |-> [cells[c] EXCEPT !.is_header = hdr]]

\* TableNormalizer._create_simple_table
CreateSimpleTable(rows, col_numbers_idx) ==
  NormalizedTable(
    [r \in 1..Len(rows) |->
       LET is_header == col_numbers_idx # 0 /\ r < col_numbers_idx
       IN NormalizedRow(SetHeader(rows[r].cells, is_header), is_header,
                        r = col_numbers_idx)],
    NoTitle)

----------------------------------------------------------------------------
(* Header rowspan inference: TableNormalizer._apply_rowspan                *)
(* Rows, cells and logical columns are counted from 1 here; the code       *)
(* counts them from 0.                                                     *)

RECURSIVE FirstFree(_, _)
\* while (row_idx, logical_col) in grid: logical_col += 1
FirstFree(taken, col) == IF col \in taken THEN FirstFree(taken, col + 1) ELSE col

RECURSIVE PlaceCells(_, _, _, _)
\* one row of the grid: logical column -> index of the cell that occupies it
PlaceCells(cells, k, logical_col, g) ==
  IF k > Len(cells) THEN g
  ELSE LET at == FirstFree(DOMAIN g, logical_col)
           covered == at..(at + cells[k].colspan - 1)
           g1 == [c \in DOMAIN g \cup {at} \cup covered |->
                    IF c = at \/ c \in covered THEN k ELSE g[c]]
       IN PlaceCells(cells, k + 1, at + cells[k].colspan, g1)

EmptyGridRow == [c \in {} |-> 0]

BuildGrid(rows) == [r \in 1..Len(rows) |-> PlaceCells(rows[r].cells, 1, 1, EmptyGridRow)]

\* max_col, as a column counted from 1
MaxLogicalCol(grid) ==
  LET cols == UNION {DOMAIN grid[r] : r \in 1..Len(grid)}
  IN IF cols = {} THEN 1 ELSE SetMax(cols)

\* an end of the header area that lies at the last row
LastRowIdx(rows) == Len(rows)

\* header_end_idx: the column-index row, else the first row that is no header
HeaderEndIdx(rows) ==
  LET coln == {r \in 1..Len(rows) : rows[r].is_column_numbers}
      nonh == {r \in 1..Len(rows) : ~rows[r].is_header}
  IN IF coln # {} THEN SetMin(coln)
     ELSE IF nonh # {} THEN SetMin(nonh)
     ELSE 0

RECURSIVE MergeLoop(_, _, _, _, _)
\* the inner while of _apply_rowspan, from the state
\* m = [rem, span, parts, ids, merge_row]; ids lists the cells absorbed
MergeLoop(m, rows, grid, logical_col, header_end_idx) ==
  IF ~(m.merge_row <= header_end_idx /\ m.merge_row <= Len(rows)) THEN m
  ELSE IF logical_col \notin DOMAIN grid[m.merge_row] THEN m
  ELSE LET merge_cell_idx == grid[m.merge_row][logical_col]
           merge_cell == rows[m.merge_row].cells[merge_cell_idx]
           m1 == [m EXCEPT
                    !.parts = IF StripText(merge_cell.text) # <<>>
                              THEN Append(@, merge_cell.text) ELSE @,
                    !.rem = @ \cup {<<m.merge_row, merge_cell_idx>>},
                    !.ids = Append(@, merge_cell.id),
                    !.span = @ + 1]
       IN IF merge_cell.has_bottom_border THEN m1
          ELSE MergeLoop([m1 EXCEPT !.merge_row = @ + 1], rows, grid, logical_col,
                         header_end_idx)

\* cell.rowspan = span; cell.text = _remove_hyphenation(' '.join(merged_text_parts))
MergedCell(cell, m) ==
  [cell EXCEPT !.rowspan = m.span,
               !.text = RemoveHyphenation(JoinTexts(m.parts, <<" ">>)),
               !.absorbed = m.ids]

RECURSIVE WalkRows(_, _, _, _, _)
\* the while over row_idx for one logical column; st = [rows, rem, proc]
WalkRows(st, grid, logical_col, row_idx, header_end_idx) ==
  IF ~(row_idx < header_end_idx) THEN st
  ELSE IF logical_col \notin DOMAIN grid[row_idx]
       THEN WalkRows(st, grid, logical_col, row_idx + 1, header_end_idx)
  ELSE LET cell_idx == grid[row_idx][logical_col]
           cell == st.rows[row_idx].cells[cell_idx]
           done == [st EXCEPT !.proc = @ \cup {<<row_idx, cell_idx>>}]
       IN IF \/ <<row_idx, cell_idx>> \in st.rem
             \/ <<row_idx, cell_idx>> \in st.proc
             \/ ~st.rows[row_idx].is_header
          THEN WalkRows(st, grid, logical_col, row_idx + 1, header_end_idx)
          ELSE IF ~cell.has_bottom_border
          THEN LET m == MergeLoop([rem |-> st.rem, span |-> 1,
                                   parts |-> IF StripText(cell.text) # <<>>
                                             THEN <<cell.text>> ELSE <<>>,
                                   ids |-> <<>>, merge_row |-> row_idx + 1],
                                  st.rows, grid, logical_col, header_end_idx)
               IN IF m.span > 1
                  THEN WalkRows([rows |-> [st.rows EXCEPT ![row_idx].cells[cell_idx] =
                                                            MergedCell(cell, m)],
                                 rem |-> m.rem,
                                 proc |-> st.proc \cup {<<row_idx, cell_idx>>}],
                                grid, logical_col, m.merge_row, header_end_idx)
                  ELSE WalkRows(done, grid, logical_col, row_idx + 1, header_end_idx)
          ELSE WalkRows(done, grid, logical_col, row_idx + 1, header_end_idx)

RECURSIVE WalkCols(_, _, _, _, _)
\* for logical_col in range(max_col + 1)
WalkCols(st, grid, logical_col, max_col, header_end_idx) ==
  IF logical_col > max_col THEN st
  ELSE WalkCols(WalkRows(st, grid, logical_col, 1, header_end_idx),
                grid, logical_col + 1, max_col, header_end_idx)

\* row.cells.pop(cell_idx), cell_idx counted from 1
Pop(cells, cell_idx) ==
  SubSeq(cells, 1, cell_idx - 1) \o SubSeq(cells, cell_idx + 1, Len(cells))

RECURSIVE PopAscending(_, _)
\* the removal with the indices taken from the least up
PopAscending(cells, todo) ==
  IF todo = {} THEN cells
  ELSE LET cell_idx == SetMin(todo)
       IN PopAscending(IF cell_idx <= Len(cells) THEN Pop(cells, cell_idx) ELSE cells,
                       todo \ {cell_idx})

RECURSIVE PopDescending(_, _)
\* pops the indices of todo from the greatest down, each only if it still
\* exists in the row
PopDescending(cells, todo) ==
  IF todo = {} THEN cells
  ELSE LET cell_idx == SetMax(todo)
       IN PopDescending(IF cell_idx <= Len(cells) THEN Pop(cells, cell_idx) ELSE cells,
                        todo \ {cell_idx})

\* the removal loop at the end of _apply_rowspan
RemoveMerged(rows, cells_to_remove) ==
  [r \in 1..Len(rows) |->
     [rows[r] EXCEPT !.cells =
        PopDescending(@, {cell_idx \in 1..Len(rows[r].cells) :
                            <<r, cell_idx>> \in cells_to_remove})]]

\* TableNormalizer._apply_rowspan: the rows it leaves, and cells_to_remove
RowspanWalk(rows) ==
  LET grid == BuildGrid(rows)
  IN WalkCols([rows |-> rows, rem |-> {}, proc |-> {}], grid, 1,
              MaxLogicalCol(grid), HeaderEndIdx(rows))

ApplyRowspan(rows) ==
  IF Len(rows) < 2 THEN rows
  ELSE IF HeaderEndIdx(rows) < 2 THEN rows
  ELSE LET st == RowspanWalk(rows)
       IN RemoveMerged(st.rows, st.rem)

\* which return of _analyze_and_normalize a list of rows takes
ResolverPath(rows) ==
  IF rows = <<>> THEN "empty"
  ELSE IF IsFormTable(rows) THEN "form"
  ELSE IF FindCanonicalWidths(rows, ColNumbersIdx(rows)) = <<>> THEN "simple"
  ELSE "infer"

\* normalized_rows of _analyze_and_normalize (lines 1199-1215)
NormalizedRows(rows) ==
  LET col_numbers_idx == ColNumbersIdx(rows)
      canonical_widths == FindCanonicalWidths(rows, col_numbers_idx)
  IN [r \in 1..Len(rows) |->
        LET is_header == col_numbers_idx # 0 /\ r < col_numbers_idx
        IN NormalizedRow(
             SetHeader(NormalizeRowCells(rows[r].cells, canonical_widths), is_header),
             is_header, r = col_numbers_idx)]

\* TableNormalizer._analyze_and_normalize
AnalyzeAndNormalize(rows) ==
  CASE ResolverPath(rows) = "empty" -> NormalizedTable(<<>>, NoTitle)
    [] ResolverPath(rows) = "form" -> CreateSimpleTable(rows, 0)
    [] ResolverPath(rows) = "simple" -> CreateSimpleTable(rows, ColNumbersIdx(rows))
    [] ResolverPath(rows) = "infer" ->
         NormalizedTable(ApplyRowspan(NormalizedRows(rows)), NoTitle)

\* the ids of the cells that _apply_rowspan marks in cells_to_remove
MarkedForRemoval(rows) ==
  IF Len(rows) < 2 \/ HeaderEndIdx(rows) < 2 THEN {}
  ELSE {rows[p[1]].cells[p[2]].id : p \in RowspanWalk(rows).rem}

----------------------------------------------------------------------------
(* Documents.  A document is the sequence of the sibling nodes that hold   *)
(* the tables: source tables (kind "table"), tables written by the         *)
(* renderer (kind "ntable"), line breaks ("br"), whitespace text ("ws"),   *)
(* other text ("text") and other elements ("elem").                        *)

Br == [kind |-> "br"]
Ws == [kind |-> "ws"]
Text == [kind |-> "text"]
Elem == [kind |-> "elem"]

\* the parsed markup of NormalizedTable.to_html: it has no class attribute
NewTable(nt, with_title) ==
  [kind |-> "ntable", table |-> [nt EXCEPT !.title = IF with_title THEN @ ELSE NoTitle]]

IsSourceTable(node) == node.kind = "table"

\* position of the source table with a given id, 0 when it is not in the document
PosOf(d, ident) ==
  LET hits == {k \in 1..Len(d) : IsSourceTable(d[k]) /\ d[k].id = ident}
  IN IF hits = {} THEN 0 ELSE SetMin(hits)

RemoveAt(d, k) == SubSeq(d, 1, k - 1) \o SubSeq(d, k + 1, Len(d))
InsertAt(d, k, node) == SubSeq(d, 1, k - 1) \o <<node>> \o SubSeq(d, k, Len(d))

RECURSIVE GroupFromPastText(_, _)
\* the walk of the siblings with non-whitespace text passed over like whitespace
GroupFromPastText(d, k) ==
  IF k > Len(d) THEN <<>>
  ELSE IF d[k].kind \in {"ws", "br", "text"} THEN GroupFromPastText(d, k + 1)
  ELSE IF IsSourceTable(d[k]) /\ d[k].class = "defFix"
       THEN <<k>> \o GroupFromPastText(d, k + 1)
  ELSE <<>>

RECURSIVE GroupFrom(_, _)
\* the while loop of _find_table_group from a sibling on: positions of the
\* defFix tables reached over whitespace and br
GroupFrom(d, k) ==
  IF k > Len(d) THEN <<>>
  ELSE IF d[k].kind = "ws" \/ d[k].kind = "br" THEN GroupFrom(d, k + 1)
  ELSE IF IsSourceTable(d[k]) /\ d[k].class = "defFix"
       THEN <<k>> \o GroupFrom(d, k + 1)
  ELSE <<>>

\* TableNormalizer._find_table_group: positions of the group's tables
FindTableGroup(d, def_pos) ==
  LET tables == <<def_pos>> \o GroupFrom(d, def_pos + 1)
  IN IF Len(tables) > 1 THEN tables ELSE <<>>

NoTable == [ok |-> FALSE, table |-> NormalizedTable(<<>>, NoTitle)]
SomeTable(nt) == [ok |-> TRUE, table |-> nt]

\* title of _merge_tables: the first non-empty title among the title tables
GroupTitle(deffix_tables) ==
  LET titled == {k \in 1..Len(deffix_tables) :
                   /\ IsTitleTable(deffix_tables[k])
                   /\ ExtractTableTitle(deffix_tables[k]) # NoTitle}
  IN IF titled = {} THEN NoTitle ELSE ExtractTableTitle(deffix_tables[SetMin(titled)])

\* content tables from which no title table has been taken out
EveryTable(deffix_tables) == deffix_tables

\* content_tables: the tables of the group that are no title tables
ContentTables(deffix_tables) == SelectSeq(deffix_tables, LAMBDA t : ~IsTitleTable(t))

AllRows(content_tables) ==
  Concat([k \in 1..Len(content_tables) |-> ExtractRows(content_tables[k])])

\* _merge_tables raises: it reaches _extract_rows (lines 1021-1023) on a
\* content table whose extraction raises
MergeTablesRaises(tables) ==
  LET deffix_tables == SelectSeq(tables, LAMBDA t : t.class = "defFix")
      content_tables == ContentTables(deffix_tables)
  IN /\ deffix_tables # <<>>
     /\ ~IsFormTableGroup(deffix_tables)
     /\ \E k \in 1..Len(content_tables) : ExtractRowsRaises(content_tables[k])

\* TableNormalizer._merge_tables; None is NoTable
MergeTables(tables) ==
  LET deffix_tables == SelectSeq(tables, LAMBDA t : t.class = "defFix")
      content_tables == ContentTables(deffix_tables)
      all_rows == AllRows(content_tables)
  IN IF tables = <<>> \/ deffix_tables = <<>> THEN NoTable
     ELSE IF IsFormTableGroup(deffix_tables) THEN NoTable
     ELSE IF content_tables = <<>> THEN NoTable
     ELSE IF all_rows = <<>> THEN NoTable
     ELSE IF ~HasBorderedCells(all_rows) THEN NoTable
     ELSE SomeTable([AnalyzeAndNormalize(all_rows) EXCEPT
                       !.title = IF GroupTitle(deffix_tables) # NoTitle
                                 THEN GroupTitle(deffix_tables) ELSE @])

----------------------------------------------------------------------------
(* Inline-style fallbacks.  A declaration is [p, v]: the property (with    *)
(* the value for text-align) and the number of pixels for a width.         *)

Decl(prop) == [p |-> prop, v |-> 0]
WidthDecl(px) == [p |-> "width", v |-> px]
BorderCollapse == Decl("border-collapse: collapse")

Bit(code, b) == (code \div b) % 2 = 1

\* the border declarations for a code, in the order LEFT, RIGHT, TOP, BOTTOM
BorderDecls(border_code) ==
  IF border_code > 0
  THEN (IF Bit(border_code, 8) THEN <<Decl("border-left: 1px solid")>> ELSE <<>>)
       \o (IF Bit(border_code, 4) THEN <<Decl("border-right: 1px solid")>> ELSE <<>>)
       \o (IF Bit(border_code, 2) THEN <<Decl("border-top: 1px solid")>> ELSE <<>>)
       \o (IF Bit(border_code, 1) THEN <<Decl("border-bottom: 1px solid")>> ELSE <<>>)
  ELSE <<>>

\* width.isdigit() gives "width: Npx", any other value is copied as it is
WidthDecls(cell) ==
  IF cell.width.k = "int" THEN <<WidthDecl(cell.width.n)>>
  ELSE IF cell.width.k = "text" THEN <<Decl("width: x")>>
  ELSE <<>>

\* 'border-collapse' not in existing_table_style
WithBorderCollapse(style) ==
  IF \E k \in 1..Len(style) : style[k] = BorderCollapse THEN style
  ELSE Append(style, BorderCollapse)

\* border code of _apply_inline_borders_to_tables: of the first class with an
\* alignment prefix and an all-digit suffix
FirstDigitClassCode(classes) ==
  LET hits == {k \in 1..Len(classes) :
                 classes[k].pre \in ALIGN_PREFIXES /\ classes[k].dig}
  IN IF hits = {} THEN 0 ELSE BorderCodeOf(classes[SetMin(hits)])

GroupCellDecls(cell) == WidthDecls(cell) \o BorderDecls(FirstDigitClassCode(cell.class))


\* alignment of _apply_inline_styles_to_single_table: L, C and R only
AlignDecls(classes) ==
  LET k == FirstAlignClass(classes)
  IN IF k = 0 THEN <<>>
     ELSE IF classes[k].pre = "L" THEN <<Decl("text-align: left")>>
     ELSE IF classes[k].pre = "C" THEN <<Decl("text-align: center")>>
     ELSE IF classes[k].pre = "R" THEN <<Decl("text-align: right")>>
     ELSE <<>>

\* border code of _apply_inline_styles_to_single_table: of the first class with
\* an alignment prefix, 0 when its suffix is no number
FirstAlignClassCode(classes) ==
  LET k == FirstAlignClass(classes)
  IN IF k > 0 /\ classes[k].dig THEN BorderCodeOf(classes[k]) ELSE 0

SingleCellDecls(cell) ==
  WidthDecls(cell) \o AlignDecls(cell.class) \o BorderDecls(FirstAlignClassCode(cell.class))

\* the table with border-collapse and with the declarations added to the
\* style of each cell: those of the single-table fallback, or of the group's
StyledCells(t, single) ==
  [t EXCEPT !.style = WithBorderCollapse(@),
            !.rows = [r \in 1..Len(t.rows) |->
                        [c \in 1..Len(t.rows[r]) |->
                           [t.rows[r][c] EXCEPT
                              !.style = @ \o (IF single THEN SingleCellDecls(t.rows[r][c])
                                              ELSE GroupCellDecls(t.rows[r][c]))]]]]

\* TableNormalizer._apply_inline_borders_to_tables, for one table of the group
ApplyInlineBorders(t) ==
  IF t.class # "defFix" THEN t ELSE StyledCells(t, FALSE)

\* a fallback that moves the width of a cell into its style
WidthMovedToStyle(t) ==
  [StyledCells(t, TRUE) EXCEPT
     !.rows = [r \in 1..Len(t.rows) |->
                 [c \in 1..Len(t.rows[r]) |-> [@[r][c] EXCEPT !.width = NoAttr]]]]

\* TableNormalizer._apply_inline_styles_to_single_table
ApplyInlineStylesToSingleTable(t) == StyledCells(t, TRUE)

\* TableNormalizer._has_hidden_borders
HasHiddenBorders(t) ==
  \E r \in 1..Len(t.rows) : \E c \in 1..Len(t.rows[r]) :
    \E k \in 1..Len(t.rows[r][c].class) :
      LET tok == t.rows[r][c].class[k]
      IN tok.pre \in ALIGN_PREFIXES /\ tok.dig /\ tok.n > 0

\* TableNormalizer._normalize_single_hidden_bordered_table: the node that
\* stands where the table stood
NormalizeSingleHiddenBorderedTable(t) ==
  LET rows == ExtractRows(t)
  IN IF rows = <<>> THEN ApplyInlineStylesToSingleTable(t)
     ELSE IF ~IsDataTable(rows) THEN ApplyInlineStylesToSingleTable(t)
     ELSE IF AnalyzeAndNormalize(rows).rows = <<>> THEN ApplyInlineStylesToSingleTable(t)
     ELSE NewTable(AnalyzeAndNormalize(rows), FALSE)

----------------------------------------------------------------------------
(* SpecTable: one data table through the extractor and the resolver, as    *)
(* _merge_tables does for the rows of its content tables (lines 1018-1044) *)

WithSpans(cell, cs, rs) == [cell EXCEPT !.colspan = cs, !.rowspan = rs]

RowPool ==
  { \* header cells that lack a bottom border
    <<TD(<<"A">>, Cls("C", 14), 100), TD(<<"B">>, Cls("C", 14), 200)>>,
    \* the first has a bottom border, the second has none
    <<TD(<<"A">>, Cls("C", 15), 100), TD(<<"B">>, Cls("C", 14), 200)>>,
    \* the same without widths
    <<TDnw(<<"A">>, Cls("C", 14)), TDnw(<<"B">>, Cls("C", 14))>>,
    \* one cell as wide as both columns, no bottom border
    <<TD(<<"X">>, Cls("C", 14), 300)>>,
    \* a word broken by a hyphen at the end of the cell
    <<TD(<<"a", "-">>, Cls("C", 14), 100), TD(<<"b">>, Cls("C", 15), 200)>>,
    \* column-index rows, with and without widths
    <<TD(<<"1">>, Cls("C", 15), 100), TD(<<"2">>, Cls("C", 15), 200)>>,
    <<TDnw(<<"1">>, Cls("C", 15)), TDnw(<<"2">>, Cls("C", 15))>>,
    \* a column-index row whose first cell lacks a bottom border
    <<TD(<<"1">>, Cls("C", 14), 100), TD(<<"2">>, Cls("C", 15), 200)>>,
    \* data cells that declare spans of 0 and -1, one without a class
    <<WithSpans(TD(<<"a">>, Cls("L", 15), 100), NoAttr, IntAttr(0)),
      WithSpans(TD(<<"b">>, NoClass, 200), IntAttr(-1), NoAttr)>>,
    \* no widths; a suffix above 15, a suffix 0, a suffix that is no number
    <<WithSpans(TDnw(<<"a">>, Cls("L", 16)), IntAttr(0), NoAttr),
      TDnw(<<" ", "b", " ", " ", "o">>, Cls("R", 0)),
      TDnw(<<>>, ClsNoDigits("J"))>>,
    \* a tr without cells
    <<>> }

TableInputs == {Table(1, "defFix", rws) : rws \in SeqsUpTo(RowPool, MaxRows) \ {<<>>}}

TInit ==
  /\ pc = "t_start"
  /\ arg \in TableInputs
  /\ mid = Idle
  /\ norm = Idle
  /\ res = Idle
  /\ ghost = {}
  /\ doc = Idle
  /\ all_tables = Idle
  /\ i = 0
  /\ processed = {}

TExtractRows ==
  /\ pc = "t_start"
  /\ mid' = ExtractRows(arg)
  /\ pc' = "t_rows"
  /\ UNCHANGED <<arg, norm, res, ghost, doc, all_tables, i, processed>>

\* _merge_tables returns None: no rows, or no cell with a border code > 0
TNoTable ==
  /\ pc = "t_rows"
  /\ ~(mid # <<>> /\ HasBorderedCells(mid))
  /\ pc' = "t_none"
  /\ UNCHANGED <<arg, mid, norm, res, ghost, doc, all_tables, i, processed>>

\* _analyze_and_normalize returns a simple table (form rows, or no canonical widths)
TSimpleTable ==
  /\ pc = "t_rows"
  /\ mid # <<>> /\ HasBorderedCells(mid)
  /\ ResolverPath(mid) # "infer"
  /\ res' = AnalyzeAndNormalize(mid)
  /\ pc' = "t_done"
  /\ UNCHANGED <<arg, mid, norm, ghost, doc, all_tables, i, processed>>

\* _analyze_and_normalize up to the call of _apply_rowspan: colspan inference
TColspan ==
  /\ pc = "t_rows"
  /\ mid # <<>> /\ HasBorderedCells(mid)
  /\ ResolverPath(mid) = "infer"
  /\ norm' = NormalizedRows(mid)
  /\ pc' = "t_norm"
  /\ UNCHANGED <<arg, mid, res, ghost, doc, all_tables, i, processed>>

\* _apply_rowspan and the return of _analyze_and_normalize
TRowspan ==
  /\ pc = "t_norm"
  /\ res' = NormalizedTable(ApplyRowspan(norm), NoTitle)
  /\ ghost' = MarkedForRemoval(norm)
  /\ pc' = "t_done"
  /\ UNCHANGED <<arg, mid, norm, doc, all_tables, i, processed>>

TNext == TExtractRows \/ TNoTable \/ TSimpleTable \/ TColspan \/ TRowspan

SpecTable == TInit /\ [][TNext]_vars

----------------------------------------------------------------------------
(* Spec: normalize_html on a document, from the group pass on (lines       *)
(* 253-259).  The documents carry no inline style and no tableformat       *)
(* attribute, so the style cleaner and the wrapper unwrapper, which only   *)
(* visit elements that have them, leave these documents as they are.       *)

\* rows of the data tables the documents are made of
Td(txt, cls) == TDnw(txt, cls)

TableBodies ==
  { \* decorative titles: one wide cell without border
    <<<<TD(<<"T">>, Cls("C", 0), 600)>>>>,
    <<<<TD(<<"U">>, Cls("L", 0), 600)>>>>,
    \* one wide cell, justified, with all four borders
    <<<<TD(<<"X">>, Cls("J", 15), 600)>>>>,
    \* a header without bottom borders over a column-index row
    <<<<TD(<<"A">>, Cls("C", 14), 100), TD(<<"B">>, Cls("C", 14), 200)>>,
      <<TD(<<"1">>, Cls("C", 15), 100), TD(<<"2">>, Cls("C", 15), 200)>>>>,
    \* plain bordered data
    <<<<TD(<<"a">>, Cls("L", 15), 100), TD(<<"b">>, Cls("R", 15), 200)>>,
      <<TD(<<"a">>, Cls("L", 15), 100), TD(<<"o">>, Cls("R", 13), 200)>>>>,
    \* borderless layout rows of 1 and 3 cells
    <<<<Td(<<"a">>, Cls("L", 0))>>,
      <<Td(<<"a">>, NoClass), Td(<<"b">>, NoClass), Td(<<"a">>, NoClass)>>>>,
    \* rows of 4 and 5 cells
    <<<<Td(<<"a">>, NoClass), Td(<<"b">>, NoClass), Td(<<"a">>, NoClass),
        Td(<<"b">>, NoClass)>>,
      <<Td(<<"a">>, NoClass), Td(<<"b">>, NoClass), Td(<<"a">>, NoClass),
        Td(<<"b">>, NoClass), Td(<<"a">>, NoClass)>>>>,
    \* bordered data with a colspan that is no number
    <<<<WithSpans(TD(<<"a">>, Cls("L", 15), 100), TextAttr, NoAttr),
        TD(<<"b">>, Cls("R", 15), 200)>>,
      <<TD(<<"a">>, Cls("L", 15), 100), TD(<<"o">>, Cls("R", 15), 200)>>>>,
    \* bordered data with a width that is no number
    <<<<Cell("td", <<"a">>, Cls("L", 15), TextAttr), TD(<<"b">>, Cls("R", 15), 200)>>,
      <<TD(<<"a">>, Cls("L", 15), 100), TD(<<"b">>, Cls("R", 15), 200)>>>>,
    \* one row of 4 cells that spells a form keyword
    <<<<Td(<<"f", "o">>, Cls("C", 0)), Td(<<"b">>, NoClass), Td(<<"a">>, NoClass),
        Td(<<"b">>, NoClass)>>>> }

\* the placeholder, then the data tables; a table's id is its position
GroupDocument(bodies) ==
  <<Table(1, "def", <<>>)>> \o [k \in 1..Len(bodies) |-> Table(k + 1, "defFix", bodies[k])]

Documents ==
  {GroupDocument(bodies) : bodies \in SeqsUpTo(TableBodies, MaxGroupTables) \ {<<>>}}

\* soup.find_all('table', class_=...): the ids of the source tables, in order
TablesIn(d, classes) ==
  LET found == SelectSeq(d, LAMBDA node : IsSourceTable(node) /\ node.class \in classes)
  IN [k \in 1..Len(found) |-> found[k].id]

Init ==
  /\ pc = "start"
  /\ doc \in Documents
  /\ arg = doc
  /\ all_tables = <<>>
  /\ i = 0
  /\ processed = {}
  /\ mid = Idle
  /\ norm = Idle
  /\ res = Idle
  /\ ghost = {}

\* _normalize_tables_in_soup, up to the loop
StartGroups ==
  /\ pc = "start"
  /\ all_tables' = TablesIn(doc, {"def", "defFix"})
  /\ i' = 0
  /\ processed' = {}
  /\ pc' = "groups"
  /\ UNCHANGED <<doc, arg, mid, norm, res, ghost>>

RECURSIVE SkipWhitespaceBack(_, _)
\* the previous sibling that is no whitespace text, 0 when there is none
SkipWhitespaceBack(d, k) ==
  IF k < 1 THEN 0
  ELSE IF d[k].kind = "ws" THEN SkipWhitespaceBack(d, k - 1)
  ELSE k

RECURSIVE RemoveGroup(_, _)
\* for t in table_group: the br before t is decomposed, then t
RemoveGroup(d, ids) ==
  IF ids = <<>> THEN d
  ELSE LET at == PosOf(d, Head(ids))
           prev == SkipWhitespaceBack(d, at - 1)
           d1 == IF prev > 0 /\ d[prev].kind = "br"
                 THEN RemoveAt(RemoveAt(d, at), prev)
                 ELSE RemoveAt(d, at)
       IN RemoveGroup(d1, Tail(ids))

\* the new table is inserted before the placeholder, the group is removed
ReplaceGroup(d, def_pos, ids, nt) ==
  RemoveGroup(InsertAt(d, def_pos, NewTable(nt, TRUE)), ids)

\* the group fallback on every table of the group
StyleGroup(d, ids) ==
  [k \in 1..Len(d) |->
     IF IsSourceTable(d[k]) /\ d[k].id \in Range(ids) THEN ApplyInlineBorders(d[k]) ELSE d[k]]

\* an iteration that moves the index of the scan back where it can
StepBack(idx) == IF idx > 0 THEN idx - 1 ELSE idx + 1

\* i += 1 at the end of an iteration of the scan (line 527)
NextIndex(idx) == idx + 1

\* the index the scan would continue from had the insertion loop run over
\* three new elements
IndexAfterLongInsert == NextIndex(2)

\* the index the scan continues from after a merge: the for loop over
\* new_elements, which holds the one rendered table, has left i = 0
IndexAfterMerge == NextIndex(0)

\* one iteration of the while loop of _normalize_tables_in_soup
GroupStep ==
  /\ pc = "groups"
  /\ i < Len(all_tables)
  /\ LET ident == all_tables[i + 1]
         at == PosOf(doc, ident)
         group == IF at > 0 /\ doc[at].class = "def" THEN FindTableGroup(doc, at) ELSE <<>>
         ids == [k \in 1..Len(group) |-> doc[group[k]].id]
         tables == [k \in 1..Len(group) |-> doc[group[k]]]
         merged == MergeTables(tables)
     IN IF ident \in processed \/ group = <<>>
        THEN /\ i' = NextIndex(i)
             /\ UNCHANGED <<pc, doc, processed>>
        ELSE IF MergeTablesRaises(tables)
        THEN /\ pc' = "raised"
             /\ UNCHANGED <<doc, processed, i>>
        ELSE IF merged.ok
        THEN /\ doc' = ReplaceGroup(doc, at, ids, merged.table)
             /\ processed' = processed \cup Range(ids)
             /\ i' = IndexAfterMerge
             /\ UNCHANGED pc
        ELSE /\ doc' = StyleGroup(doc, ids)
             /\ processed' = processed \cup Range(ids)
             /\ i' = NextIndex(i)
             /\ UNCHANGED pc
  /\ UNCHANGED <<all_tables, arg, mid, norm, res, ghost>>

\* the loop ends; _normalize_hidden_bordered_tables lists the defFix tables
StartHidden ==
  /\ pc = "groups"
  /\ ~(i < Len(all_tables))
  /\ all_tables' = TablesIn(doc, {"defFix"})
  /\ i' = 0
  /\ pc' = "hidden"
  /\ UNCHANGED <<doc, processed, arg, mid, norm, res, ghost>>

\* one iteration of the for loop of _normalize_hidden_bordered_tables
HiddenStep ==
  /\ pc = "hidden"
  /\ i < Len(all_tables)
  /\ LET at == PosOf(doc, all_tables[i + 1])
         table == doc[at]
     IN IF table.border.k = "int" /\ table.border.n # 0
        THEN /\ i' = i + 1
             /\ UNCHANGED <<pc, doc>>
        ELSE IF HasHiddenBorders(table) /\ ExtractRowsRaises(table)
        THEN /\ pc' = "raised"
             /\ UNCHANGED <<doc, i>>
        ELSE IF HasHiddenBorders(table)
        THEN /\ doc' = [doc EXCEPT ![at] = NormalizeSingleHiddenBorderedTable(table)]
             /\ i' = i + 1
             /\ UNCHANGED pc
        ELSE /\ doc' = [doc EXCEPT ![at] = ApplyInlineStylesToSingleTable(table)]
             /\ i' = i + 1
             /\ UNCHANGED pc
  /\ UNCHANGED <<all_tables, processed, arg, mid, norm, res, ghost>>

\* normalize_html returns
Finish ==
  /\ pc = "hidden"
  /\ ~(i < Len(all_tables))
  /\ pc' = "done"
  /\ UNCHANGED <<doc, all_tables, i, processed, arg, mid, norm, res, ghost>>

Next == StartGroups \/ GroupStep \/ StartHidden \/ HiddenStep \/ Finish

Spec == Init /\ [][Next]_vars

----------------------------------------------------------------------------
(* Properties of SpecTable                                                 *)

CellsOfRows(rows) ==
  UNION {{rows[r].cells[c] : c \in 1..Len(rows[r].cells)} : r \in 1..Len(rows)}

RowIds(row) == [c \in 1..Len(row.cells) |-> row.cells[c].id]

\* the cell of norm with a given id: the cell as it was before _apply_rowspan
Before(ident) == CHOOSE cell \in CellsOfRows(norm) : cell.id = ident

InferenceRan == pc = "t_done" /\ norm # Idle

\* C2: every cell of every table the engine produces has colspan >= 1 and
\* rowspan >= 1, whatever spans the source cells declare, on the colspan
\* inference path and on the pass-through path
C2_SpansAtLeastOne ==
  pc = "t_done" =>
    \A cell \in CellsOfRows(res.rows) : cell.colspan >= 1 /\ cell.rowspan >= 1

\* the texts a merged header cell is made of, top to bottom
OriginTexts(cell) ==
  SelectSeq(<<Before(cell.id).text>> \o
              [k \in 1..Len(cell.absorbed) |-> Before(cell.absorbed[k]).text],
            LAMBDA t : t # <<>>)

LastAbsorbed(cell) == Before(cell.absorbed[Len(cell.absorbed)])

InColumnIndexRow(ident) ==
  \E r \in 1..Len(norm) : norm[r].is_column_numbers /\ ident \in Range(RowIds(norm[r]))

\* C3: a header cell whose rowspan was set by header rowspan inference has
\* rowspan = the number of cells merged (itself and each absorbed cell), its
\* text is the non-empty texts of exactly those cells, top to bottom, joined
\* by single spaces, with hyphenation repaired, and absorption went down to
\* a cell with a bottom border or to the column-index row
C3_MergedHeaderCell ==
  InferenceRan =>
    \A cell \in CellsOfRows(res.rows) :
      cell.absorbed # <<>> =>
        /\ cell.rowspan = 1 + Len(cell.absorbed)
        /\ cell.text = RemoveHyphenation(JoinTexts(OriginTexts(cell), <<" ">>))
        /\ \/ LastAbsorbed(cell).has_bottom_border
           \/ InColumnIndexRow(LastAbsorbed(cell).id)

\* one header row without bottom borders above a column-index row with as
\* many cells, the same widths and a bottom border on every cell
C4_TwoRowHeader ==
  /\ Len(norm) >= 2
  /\ norm[2].is_column_numbers
  /\ Len(norm[1].cells) = Len(norm[2].cells)
  /\ \A c \in 1..Len(norm[1].cells) :
       /\ ~norm[1].cells[c].has_bottom_border
       /\ norm[2].cells[c].has_bottom_border
       /\ norm[1].cells[c].width = norm[2].cells[c].width

\* C4: for such a header every cell of the first row gets rowspan 2 and the
\* column-index row is left empty; in general the cells deleted from a row
\* are exactly the absorbed cells, the others staying in their order
C4_AbsorbedCellsDeleted ==
  InferenceRan =>
    /\ C4_TwoRowHeader =>
         /\ Len(res.rows[1].cells) = Len(norm[1].cells)
         /\ \A c \in 1..Len(res.rows[1].cells) : res.rows[1].cells[c].rowspan = 2
         /\ res.rows[2].cells = <<>>
    /\ Len(res.rows) = Len(norm)
    /\ \A r \in 1..Len(norm) :
         RowIds(res.rows[r]) = SelectSeq(RowIds(norm[r]), LAMBDA ident : ident \notin ghost)

\* the two-row header has been merged, and a row lost some but not all cells
C4_Witness ==
  /\ InferenceRan
  /\ C4_TwoRowHeader
  /\ res.rows[2].cells = <<>>
  /\ Cardinality(ghost) >= 2

\* C10: every extracted cell has border_code in 0..15 and its border flags
\* are the bits of the code (bottom = bit 0, top = bit 1), also after
\* colspan and rowspan inference
C10_BorderFlagsMatchCode ==
  \A cell \in CellsOfRows(mid) \cup CellsOfRows(norm)
                \cup (IF pc = "t_done" THEN CellsOfRows(res.rows) ELSE {}) :
    /\ cell.border_code \in 0..15
    /\ cell.has_bottom_border = BottomBit(cell.border_code)
    /\ cell.has_top_border = TopBit(cell.border_code)

----------------------------------------------------------------------------
(* Properties of Spec                                                      *)

\* the data tables of the document normalize_html was called on
DataTables(d) == SelectSeq(d, LAMBDA node : IsSourceTable(node) /\ node.class = "defFix")

\* a source table without its style attributes
Unstyled(t) ==
  [t EXCEPT !.style = <<>>,
            !.rows = [r \in 1..Len(t.rows) |->
                        [c \in 1..Len(t.rows[r]) |-> [t.rows[r][c] EXCEPT !.style = <<>>]]]]

FormGroupGiven == Len(arg) >= 2 /\ IsFormTableGroup(DataTables(arg))

\* C1: each table of a group that the form-group test classifies as form has
\* the same rows, cells and cell texts after every pass of normalize_html as
\* before, the hidden-border pass included; only style attributes may differ
C1_FormGroupUnchanged ==
  FormGroupGiven =>
    \A k \in 2..Len(arg) :
      /\ PosOf(doc, arg[k].id) > 0
      /\ Unstyled(doc[PosOf(doc, arg[k].id)]) = Unstyled(arg[k])

\* the group pass has replaced the group by the table it merged
GroupMerged == pc = "done" /\ processed # {} /\ doc[1].kind = "ntable"

\* ids of the source cells a cell of the output stands for
SourceIds(cell) == {cell.id} \cup Range(cell.absorbed)

\* C5: no row of a data table classified as title is among the rows of the
\* merged table, and the text of each title table of the group is contained
\* in the merged table's title
C5_TitleTablesBecomeTitle ==
  GroupMerged =>
    \A k \in 2..Len(arg) :
      IsTitleTable(arg[k]) =>
        /\ \A cell \in CellsOfRows(doc[1].table.rows) :
             \A ident \in SourceIds(cell) : ident[1] # arg[k].id
        /\ ContainsText(doc[1].table.title, TableText(arg[k]))

\* a cell of the data tables has a border code > 0
HasBorderedSource(d) ==
  \E k \in 1..Len(DataTables(d)) : HasBorderedCells(ExtractRows(DataTables(d)[k]))

BorderedGroupGiven ==
  Len(arg) >= 2 /\ HasBorderedSource(arg) /\ ~IsFormTableGroup(DataTables(arg))

\* the source cell with a given id
SourceCell(ident) == arg[ident[1]].rows[ident[2]][ident[3]]

\* document order of two source cells
DocOrder(a, b) ==
  \/ a[1] < b[1]
  \/ a[1] = b[1] /\ a[2] < b[2]
  \/ a[1] = b[1] /\ a[2] = b[2] /\ a[3] < b[3]

\* the cells of the rows, row after row
FlatCells(rows) == Concat([r \in 1..Len(rows) |-> rows[r].cells])

\* each cell of the rows has the border code of the source cell it stands for
\* and a text that contains the source cell's, and the cells follow each
\* other as their source cells do in the document
CarriesSource(rows) ==
  LET cells == FlatCells(rows)
  IN /\ \A k \in 1..Len(cells) :
          /\ cells[k].border_code = ExtractCell(SourceCell(cells[k].id), cells[k].id).border_code
          /\ ContainsText(cells[k].text, CleanText(SourceCell(cells[k].id).text))
     /\ \A k \in 1..(Len(cells) - 1) : DocOrder(cells[k].id, cells[k + 1].id)

\* C6: a placeholder followed by data tables with a bordered cell, not a form
\* group, is replaced by exactly one table where the placeholder was: the
\* placeholder and the data tables are gone, and the new table's rows carry
\* the data tables' cell texts and border codes in document order
C6_GroupReplacedByOneTable ==
  (pc = "done" /\ BorderedGroupGiven) =>
    /\ Len(doc) = 1
    /\ doc[1].kind = "ntable"
    /\ CarriesSource(doc[1].table.rows)

----------------------------------------------------------------------------
(* SpecForm: _is_form_table_group on the data tables of a group            *)

MaxFormTables == 4

\* a row of n cells of one tag; its first cell holds the given text
FormRow(tg, n, first) ==
  [c \in 1..n |-> Cell(tg, IF c = 1 THEN first ELSE <<"a">>, NoClass, NoAttr)]

\* the cell counts of the rows of the tables the groups are made of
RowCountShapes == {<<1>>, <<3>>, <<1, 2>>, <<3, 3, 3>>, <<3, 4>>, <<5, 6>>}

FormBodies ==
  {[r \in 1..Len(shape) |-> FormRow("td", shape[r], <<"a">>)] : shape \in RowCountShapes}
  \cup {[r \in 1..Len(shape) |-> FormRow("th", shape[r], <<"a">>)] :
          shape \in {<<1, 2>>, <<3, 4>>, <<5, 6>>}}
  \cup {[r \in 1..Len(shape) |-> FormRow("td", shape[r], <<"f", "o">>)] :
          shape \in {<<1>>, <<3, 4>>}}

FormGroups ==
  {[k \in 1..Len(bodies) |-> Table(k + 1, "defFix", bodies[k])] :
     bodies \in SeqsUpTo(FormBodies, MaxFormTables) \ {<<>>}}

FInit ==
  /\ pc = "f_start"
  /\ arg \in FormGroups
  /\ res = Idle
  /\ doc = <<>>
  /\ all_tables = <<>>
  /\ i = 0
  /\ processed = {}
  /\ mid = Idle
  /\ norm = Idle
  /\ ghost = {}

\* the call self._is_form_table_group(deffix_tables) of _merge_tables
FIsFormTableGroup ==
  /\ pc = "f_start"
  /\ res' = [form |-> IsFormTableGroup(arg)]
  /\ pc' = "f_done"
  /\ UNCHANGED <<doc, all_tables, i, processed, arg, mid, norm, ghost>>

FNext == FIsFormTableGroup

SpecForm == FInit /\ [][FNext]_vars

\* the distinct numbers of cells, td or th, of the rows of the tables
RowCellCounts(tables) ==
  UNION {{Len(CellsOf(tables[t].rows[r])) : r \in 1..Len(tables[t].rows)} :
           t \in 1..Len(tables)}

\* C7: a group is classified as form exactly when it has >= 3 data tables,
\* >= 4 distinct per-row cell counts over all their rows, and >= 5 distinct
\* counts or a form keyword in the combined text
C7_FormGroupTest ==
  pc = "f_done" =>
    (res.form <=>
       /\ Len(arg) >= 3
       /\ Cardinality(RowCellCounts(arg)) >= 4
       /\ \/ Cardinality(RowCellCounts(arg)) >= 5
          \/ HasFormKeywords(GroupText(arg)))

----------------------------------------------------------------------------
(* SpecHyphen: _remove_hyphenation on a merged header text                 *)

MaxTextLen == 5

HyphenChars == {"a", "b", "B", "1", "_", "-", " "}

HInit ==
  /\ pc = "h_start"
  /\ arg \in SeqsUpTo(HyphenChars, MaxTextLen)
  /\ res = Idle
  /\ doc = <<>>
  /\ all_tables = <<>>
  /\ i = 0
  /\ processed = {}
  /\ mid = Idle
  /\ norm = Idle
  /\ ghost = {}

\* the call self._remove_hyphenation(merged_text) of _apply_rowspan
HRemoveHyphenation ==
  /\ pc = "h_start"
  /\ res' = [text |-> RemoveHyphenation(arg)]
  /\ pc' = "h_done"
  /\ UNCHANGED <<doc, all_tables, i, processed, arg, mid, norm, ghost>>

HNext == HRemoveHyphenation

SpecHyphen == HInit /\ [][HNext]_vars

\* the text has a lowercase letter, a hyphen, spaces and a lowercase letter in a row
HasLowercaseBreak(t) ==
  \E k \in 1..Len(t) : \E j \in (k + 3)..Len(t) :
    /\ t[k] \in LowerLetters
    /\ t[k + 1] = "-"
    /\ \A m \in (k + 2)..(j - 1) : t[m] = " "
    /\ t[j] \in LowerLetters

\* C8: hyphenation repair changes a text only at a lowercase letter, hyphen,
\* space, lowercase letter; a text without such a place, whose hyphens stand
\* before no space or next to an uppercase letter, a digit or an underscore,
\* comes back unchanged
C8_OnlyLowercaseBreaksRepaired ==
  pc = "h_done" => (HasLowercaseBreak(arg) \/ res.text = arg)

----------------------------------------------------------------------------
(* Style Cleaner: _clean_black_color_styles on one style attribute.  A     *)
(* style is a sequence of tokens: a word such as "black" or "x", ":", ";"  *)
(* or one space.  The patterns ignore case; the tokens are lower case.     *)

\* tokens whose first, or last, character is a word character (\w)
WordTokens == {"black", "windowtext", "color", "background", "white", "x", "2pt", "margin-left"}
StartsWord(tok) == tok \in WordTokens
EndsWord(tok) == tok \in WordTokens \cup {"#fff"}

\* what stands before the first token
NoToken == ""

RECURSIVE SubWordThenSpaces(_, _, _)
\* re.sub(r'\bWORD\s+', '', style): prev is the token before t in the string
SubWordThenSpaces(prev, t, word) ==
  IF t = <<>> THEN <<>>
  ELSE IF t[1] = word /\ ~EndsWord(prev) /\ Len(t) >= 2 /\ t[2] = " "
       THEN SubWordThenSpaces(" ", StripLeft(Tail(t)), word)
  ELSE <<t[1]>> \o SubWordThenSpaces(t[1], Tail(t), word)

RECURSIVE SubSpacesThenWord(_, _)
\* re.sub(r'\s+WORD\b', '', style)
SubSpacesThenWord(t, word) ==
  IF t = <<>> THEN <<>>
  ELSE LET rest == StripLeft(t)
       IN IF /\ t[1] = " "
             /\ rest # <<>>
             /\ rest[1] = word
             /\ (Len(rest) = 1 \/ ~StartsWord(rest[2]))
          THEN SubSpacesThenWord(Tail(rest), word)
          ELSE <<t[1]>> \o SubSpacesThenWord(Tail(t), word)

\* PROP\s*:\s* at the head of t: whether t starts so, and what follows
AfterProperty(t, prop) ==
  LET r1 == StripLeft(Tail(t))
  IN IF t # <<>> /\ t[1] = prop /\ r1 # <<>> /\ r1[1] = ":"
     THEN [ok |-> TRUE, rest |-> StripLeft(Tail(r1))]
     ELSE [ok |-> FALSE, rest |-> <<>>]

RECURSIVE SubDeclaration(_, _, _)
\* re.sub(r'PROP\s*:\s*VALUE\s*;?', '', style), VALUE one of values
SubDeclaration(t, prop, values) ==
  IF t = <<>> THEN <<>>
  ELSE LET m == AfterProperty(t, prop)
           r3 == StripLeft(Tail(m.rest))
       IN IF m.ok /\ m.rest # <<>> /\ m.rest[1] \in values
          THEN SubDeclaration(IF r3 # <<>> /\ r3[1] = ";" THEN Tail(r3) ELSE r3,
                              prop, values)
          ELSE <<t[1]>> \o SubDeclaration(Tail(t), prop, values)

RECURSIVE SubEmptyColor(_)
\* re.sub(r'color\s*:\s*(?=;|["\'>]|$)', '', style): the property and the
\* spaces go, what the lookahead saw stays
SubEmptyColor(t) ==
  IF t = <<>> THEN <<>>
  ELSE LET m == AfterProperty(t, "color")
       IN IF m.ok /\ (m.rest = <<>> \/ m.rest[1] \in {";", "\"", "'", ">"})
          THEN SubEmptyColor(m.rest)
          ELSE <<t[1]>> \o SubEmptyColor(Tail(t))

RECURSIVE SubDoubleSemicolon(_)
\* re.sub(r';\s*;', ';', style): the scan resumes after the second semicolon
SubDoubleSemicolon(t) ==
  IF t = <<>> THEN <<>>
  ELSE LET rest == StripLeft(Tail(t))
       IN IF t[1] = ";" /\ rest # <<>> /\ rest[1] = ";"
          THEN <<";">> \o SubDoubleSemicolon(Tail(rest))
          ELSE <<t[1]>> \o SubDoubleSemicolon(Tail(t))

RECURSIVE StripLeftOf(_, _)
StripLeftOf(t, chars) ==
  IF t # <<>> /\ t[1] \in chars THEN StripLeftOf(Tail(t), chars) ELSE t

RECURSIVE StripRightOf(_, _)
StripRightOf(t, chars) ==
  IF t # <<>> /\ t[Len(t)] \in chars THEN StripRightOf(SubSeq(t, 1, Len(t) - 1), chars) ELSE t

\* new_style.strip(' ;')
StripSpacesSemicolons(t) == StripRightOf(StripLeftOf(t, {" ", ";"}), {" ", ";"})

\* the near-white colours #[fF][eEfF][fF]?[eEfF]?[fF]?[eEfF]?
NearWhite == {"#fff"}
\* the lengths [\d.]+\s*pt
PtLengths == {"2pt"}

\* the loop body of _clean_black_color_styles for one element: the style the
\* element has afterwards, the empty sequence when it has none
CleanStyle(style) ==
  IF style = <<>> THEN style
  ELSE LET s1 == SubWordThenSpaces(NoToken, style, "black")
           s2 == SubSpacesThenWord(s1, "black")
           s3 == SubWordThenSpaces(NoToken, s2, "windowtext")
           s4 == SubSpacesThenWord(s3, "windowtext")
           s5 == SubDeclaration(s4, "color", {"black"})
           s6 == SubEmptyColor(s5)
           s7 == SubDeclaration(s6, "background", {"white"})
           s8 == SubDeclaration(s7, "background", NearWhite)
           s9 == SubDeclaration(s8, "margin-left", PtLengths)
           s10 == CollapseSpaces(s9)
           s11 == SubDoubleSemicolon(s10)
       IN StripSpacesSemicolons(s11)

----------------------------------------------------------------------------
(* SpecClean: the style cleaner on one element, in two calls of            *)
(* normalize_html in a row                                                 *)

MaxStyleLen == 5

StyleTokens == {"black", "color", "background", "white", ":", ";", " ", "x"}

CInit ==
  /\ pc = "c_start"
  /\ arg \in SeqsUpTo(StyleTokens, MaxStyleLen)
  /\ mid = Idle
  /\ res = Idle
  /\ doc = <<>>
  /\ all_tables = <<>>
  /\ i = 0
  /\ processed = {}
  /\ norm = Idle
  /\ ghost = {}

\* _clean_black_color_styles on the element as it came
CClean ==
  /\ pc = "c_start"
  /\ mid' = [style |-> CleanStyle(arg)]
  /\ pc' = "c_once"
  /\ UNCHANGED <<doc, all_tables, i, processed, arg, norm, res, ghost>>

\* _clean_black_color_styles on the element the first call left
CCleanAgain ==
  /\ pc = "c_once"
  /\ res' = [style |-> CleanStyle(mid.style)]
  /\ pc' = "c_twice"
  /\ UNCHANGED <<doc, all_tables, i, processed, arg, mid, norm, ghost>>

CNext == CClean \/ CCleanAgain

SpecClean == CInit /\ [][CNext]_vars

\* C9: style cleaning is idempotent: cleaning a cleaned style changes nothing
C9_CleanIdempotent ==
  pc = "c_twice" => res.style = mid.style

----------------------------------------------------------------------------
(* Further properties of SpecTable                                         *)

\* the rows of a table that carry the column-index flag
ColumnIndexRows(nt) == {r \in 1..Len(nt.rows) : nt.rows[r].is_column_numbers}

\* the rows before the first data row
LeadingRows(nt) ==
  LET data == {r \in 1..Len(nt.rows) :
                 ~nt.rows[r].is_header /\ ~nt.rows[r].is_column_numbers}
  IN IF data = {} THEN nt.rows ELSE SubSeq(nt.rows, 1, SetMin(data) - 1)

\* C11: a resolved table has at most one column-index row, its header rows
\* all precede that row, the rows after it are data rows, no row is header
\* and column-index row at once, and the renderer's header block (header rows
\* and column-index row) followed by its body block (data rows) is the
\* table's rows in their order
C11_RowClassesOrdered ==
  pc = "t_done" =>
    /\ Cardinality(ColumnIndexRows(res)) <= 1
    /\ \A r \in 1..Len(res.rows) :
         /\ ~(res.rows[r].is_header /\ res.rows[r].is_column_numbers)
         /\ res.rows[r].is_header =>
              \E k \in ColumnIndexRows(res) : r < k
         /\ (\E k \in ColumnIndexRows(res) : k < r) =>
              ~res.rows[r].is_header /\ ~res.rows[r].is_column_numbers
    /\ HeaderRows(res) = LeadingRows(res)
    /\ HeaderRows(res) \o DataRows(res) = res.rows

\* a table with a header row, a column-index row and a data row after it
C11_Witness ==
  /\ pc = "t_done"
  /\ Len(res.rows) = 3
  /\ res.rows[1].is_header
  /\ res.rows[2].is_column_numbers
  /\ DataRows(res) = <<res.rows[3]>>

\* what the claim compares of a row: its cells' text and rowspan, in order
TextAndRowspan(row) ==
  [c \in 1..Len(row.cells) |-> <<row.cells[c].text, row.cells[c].rowspan>>]

\* the rows of a table that are data rows: those after the column-index
\* row, and all rows where there is none
DataRowIdxs(rows) ==
  IF ColumnIndexRows([rows |-> rows]) = {} THEN 1..Len(rows)
  ELSE {r \in 1..Len(rows) : r > SetMin(ColumnIndexRows([rows |-> rows]))}

\* C15: the rowspan inference leaves every data row as it found it: the
\* number, order, text and rowspan of its cells, whatever their borders
C15_DataRowsUnchanged ==
  InferenceRan =>
    /\ Len(res.rows) = Len(norm)
    /\ \A r \in DataRowIdxs(norm) : TextAndRowspan(res.rows[r]) = TextAndRowspan(norm[r])

\* a header cell and the column-index cell below it were merged across a
\* missing bottom border, above a data row
C15_Witness ==
  /\ InferenceRan
  /\ ghost # {}
  /\ \E r \in DataRowIdxs(norm) :
       /\ r > 1
       /\ norm[r - 1].is_column_numbers
       /\ ~norm[r - 1].cells[1].has_bottom_border
       /\ \E c \in 1..Len(norm[r].cells) : ~norm[r].cells[c].has_bottom_border

----------------------------------------------------------------------------
(* Further properties of Spec                                              *)

\* C12: normalize_html never raises, whatever the cells' width, colspan and
\* rowspan attributes hold, and a group whose merge yields no table is left
\* in place by the group pass, with inline styles only
C12_NoHardFailure ==
  /\ pc # "raised"
  /\ (pc = "hidden" /\ i = 0 /\ ~MergeTables(arg).ok) =>
       /\ Len(doc) = Len(arg)
       /\ \A k \in 2..Len(arg) :
            IsSourceTable(doc[k]) /\ Unstyled(doc[k]) = Unstyled(arg[k])

\* the rows _merge_tables collects from the tables of the group that are no
\* title tables
NonTitleRows(d) == AllRows(ContentTables(DataTables(d)))

\* C14: a group is replaced by a merged table only if its non-title rows
\* pass the data-table test: at least two rows, a cell with a border code
\* above 0 and a bounded variation of the rows' cell counts
C14_MergedOnlyDataTables == GroupMerged => IsDataTable(NonTitleRows(arg))

\* a step that changes the document and replaces no node of it: the group
\* pass or the hidden-border pass fell back to inline styles
FallbackStep ==
  /\ doc' # doc
  /\ Len(doc') = Len(doc)
  /\ \A k \in 1..Len(doc) : doc'[k].kind = doc[k].kind

\* C18: a fallback to inline styles leaves the rows of every table, the
\* cells of every row, each cell's text and every attribute but style as
\* they were, in the group pass and in the hidden-border pass
C18_FallbackKeepsStructure ==
  [][FallbackStep =>
       \A k \in 1..Len(doc) :
         IsSourceTable(doc[k]) => Unstyled(doc'[k]) = Unstyled(doc[k])]_vars

\* both passes fell back on a table and gave a bordered cell a style
C18_Witness ==
  /\ pc = "done"
  /\ Len(doc) = Len(arg)
  /\ \E k \in 2..Len(arg) :
       /\ IsSourceTable(doc[k])
       /\ Unstyled(doc[k]) = Unstyled(arg[k])
       /\ doc[k].style # arg[k].style
       /\ \E r \in 1..Len(arg[k].rows) : \E c \in 1..Len(arg[k].rows[r]) :
            /\ FirstAlignClassCode(arg[k].rows[r][c].class) > 0
            /\ Len(doc[k].rows[r][c].style) > Len(SingleCellDecls(arg[k].rows[r][c]))

----------------------------------------------------------------------------
(* SpecGroups: normalize_html on documents with several placeholders,      *)
(* line breaks, whitespace and text between the tables                     *)

MaxNodes == 4

GroupNodes ==
  { Table(0, "def", <<>>),
    \* a two-row header above a column-index row
    Table(0, "defFix",
          <<<<TD(<<"A">>, Cls("C", 14), 100), TD(<<"B">>, Cls("C", 14), 200)>>,
            <<TD(<<"A">>, Cls("C", 15), 100), TD(<<"B">>, Cls("C", 14), 200)>>,
            <<TD(<<"1">>, Cls("C", 15), 100), TD(<<"2">>, Cls("C", 15), 200)>>>>),
    \* a decorative title
    Table(0, "defFix", <<<<TD(<<"T">>, Cls("C", 0), 600)>>>>),
    Br, Ws, Text }

\* a table's id is its position in the document
WithIds(d) ==
  [k \in 1..Len(d) |-> IF IsSourceTable(d[k]) THEN [d[k] EXCEPT !.id = k] ELSE d[k]]

GInit ==
  /\ pc = "start"
  /\ doc \in {WithIds(d) : d \in SeqsUpTo(GroupNodes, MaxNodes)}
  /\ arg = doc
  /\ all_tables = <<>>
  /\ i = 0
  /\ processed = {}
  /\ mid = Idle
  /\ norm = Idle
  /\ res = Idle
  /\ ghost = {}

SpecGroups == GInit /\ [][Next]_vars

\* the interpreter runs the next statement of normalize_html as long as there
\* is one: weak fairness of Next, WF_vars(Next), with the enabling condition
\* written out as the program counter's test
Running == pc \in {"start", "groups", "hidden"}

WeakFairness == <>[]Running => []<><<Next>>_vars

SpecGroupsFair == SpecGroups /\ WeakFairness

\* C13: normalize_html terminates on every document: the scan of the
\* candidate tables, whose index the insertion loop resets, the sibling walk
\* of a group and the row walk of the rowspan inference come to their end
C13_Terminates == <>(pc = "done")

\* the scan went back: two groups were merged, the second after a reset of
\* the index, and the run came to its end
C13_Witness ==
  /\ pc = "done"
  /\ Cardinality({k \in 1..Len(doc) : doc[k].kind = "ntable"}) = 2
  /\ Cardinality({k \in 1..Len(arg) : IsSourceTable(arg[k]) /\ arg[k].class = "def"}) = 2
  /\ \E k \in 1..Len(doc) :
       /\ doc[k].kind = "ntable"
       /\ \E cell \in CellsOfRows(doc[k].table.rows) : cell.rowspan > 1

----------------------------------------------------------------------------
(* SpecOrder: normalize_html on groups that pass several of the tests of   *)
(* _merge_tables at once                                                   *)

MaxOrderTables == 3

OrderBodies ==
  { \* decorative titles, one of them spelling a form keyword
    <<<<TD(<<"f", "o">>, Cls("C", 0), 600)>>>>,
    <<<<TD(<<"T">>, Cls("C", 0), 600)>>>>,
    \* plain bordered data
    <<<<TD(<<"a">>, Cls("L", 15), 100), TD(<<"b">>, Cls("R", 15), 200)>>,
      <<TD(<<"a">>, Cls("L", 15), 100), TD(<<"o">>, Cls("R", 13), 200)>>>>,
    \* borderless layout rows of 3 and 4 cells
    <<<<Td(<<"a">>, NoClass), Td(<<"b">>, NoClass), Td(<<"a">>, NoClass)>>,
      <<Td(<<"a">>, NoClass), Td(<<"b">>, NoClass), Td(<<"a">>, NoClass),
        Td(<<"b">>, NoClass)>>>>,
    \* rows of 4 and 5 cells
    <<<<Td(<<"a">>, NoClass), Td(<<"b">>, NoClass), Td(<<"a">>, NoClass),
        Td(<<"b">>, NoClass)>>,
      <<Td(<<"a">>, NoClass), Td(<<"b">>, NoClass), Td(<<"a">>, NoClass),
        Td(<<"b">>, NoClass), Td(<<"a">>, NoClass)>>>>,
    \* one borderless row of 2 cells
    <<<<Td(<<"a">>, Cls("L", 0)), Td(<<"b">>, Cls("R", 0))>>>> }

OInit ==
  /\ pc = "start"
  /\ doc \in {GroupDocument(bodies) : bodies \in SeqsUpTo(OrderBodies, MaxOrderTables) \ {<<>>}}
  /\ arg = doc
  /\ all_tables = <<>>
  /\ i = 0
  /\ processed = {}
  /\ mid = Idle
  /\ norm = Idle
  /\ res = Idle
  /\ ghost = {}

SpecOrder == OInit /\ [][Next]_vars

\* the group pass is over and the hidden-border pass has not begun
GroupPassOver == pc = "hidden" /\ i = 0

\* the group is in the document as it was given, but for style attributes
StylesOnly ==
  /\ Len(doc) = Len(arg)
  /\ \A k \in 1..Len(arg) : IsSourceTable(doc[k]) /\ Unstyled(doc[k]) = Unstyled(arg[k])

\* a table of the group that is no title table has a bordered cell
BorderedContentGiven ==
  \E k \in 2..Len(arg) : ~IsTitleTable(arg[k]) /\ HasBorderedCells(ExtractRows(arg[k]))

\* C16: the tests apply in the order form group, title table, data table,
\* fallback: a form group keeps its tables (no title taken, no rows merged)
\* whatever its tables and rows would pass; rows are merged only for a
\* group that is no form group, from tables that are no title tables, which
\* alone decide whether the group is merged; else the group falls back
C16_FormThenTitleThenData ==
  GroupPassOver =>
    /\ FormGroupGiven => StylesOnly
    /\ doc[1].kind = "ntable" =>
         /\ ~FormGroupGiven
         /\ BorderedContentGiven
         /\ \A k \in 2..Len(arg) :
              IsTitleTable(arg[k]) =>
                \A cell \in CellsOfRows(doc[1].table.rows) :
                  \A ident \in SourceIds(cell) : ident[1] # arg[k].id
    /\ doc[1].kind # "ntable" =>
         /\ StylesOnly
         /\ FormGroupGiven \/ ~BorderedContentGiven

\* a form group with a title table and rows that pass the data-table test
\* has gone through the group pass
C16_Witness ==
  /\ GroupPassOver
  /\ FormGroupGiven
  /\ \E k \in 2..Len(arg) : IsTitleTable(arg[k])
  /\ IsDataTable(NonTitleRows(arg))
  /\ StylesOnly

----------------------------------------------------------------------------
(* SpecTitle: _is_title_table on tables of one-cell and two-cell rows      *)

MaxTitleRows == 4

TitleRowPool ==
  { \* one wide cell without border
    <<TD(<<"T">>, Cls("C", 0), 600)>>,
    \* one narrow cell
    <<TD(<<"T">>, Cls("C", 0), 400)>>,
    \* one cell without width, one whose width is no number
    <<TDnw(<<"T">>, Cls("C", 0))>>,
    <<Cell("td", <<"T">>, Cls("C", 0), TextAttr)>>,
    \* one wide cell with borders, justified and left-aligned
    <<TD(<<"X">>, Cls("J", 15), 600)>>,
    <<TD(<<"X">>, Cls("L", 5), 600)>>,
    \* two cells
    <<TD(<<"a">>, Cls("L", 0), 600), TD(<<"b">>, Cls("L", 0), 600)>> }

TitleInputs == {Table(1, "defFix", rws) : rws \in SeqsUpTo(TitleRowPool, MaxTitleRows)}

TTInit ==
  /\ pc = "tt_start"
  /\ arg \in TitleInputs
  /\ res = Idle
  /\ doc = <<>>
  /\ all_tables = <<>>
  /\ i = 0
  /\ processed = {}
  /\ mid = Idle
  /\ norm = Idle
  /\ ghost = {}

TTIsTitleTable ==
  /\ pc = "tt_start"
  /\ res' = [title |-> IsTitleTable(arg)]
  /\ pc' = "tt_done"
  /\ UNCHANGED <<doc, all_tables, i, processed, arg, mid, norm, ghost>>

TTNext == TTIsTitleTable

SpecTitle == TTInit /\ [][TTNext]_vars

\* a class of the cell declares a border code above 0, whatever its prefix
DeclaresBorder(cell) ==
  \E k \in 1..Len(cell.class) :
    cell.class[k].pre \in ALIGN_PREFIXES /\ cell.class[k].dig /\ cell.class[k].n > 0

\* C17: a table is a title table exactly when it has 1 to 3 rows, each of
\* one cell, no cell declares a border code above 0 under a prefix L, C, R
\* or J, and each cell declares a width of at least 500
C17_TitleTest ==
  pc = "tt_done" =>
    (res.title <=>
       /\ Len(arg.rows) \in 1..3
       /\ \A r \in 1..Len(arg.rows) :
            /\ Len(arg.rows[r]) = 1
            /\ ~DeclaresBorder(arg.rows[r][1])
            /\ arg.rows[r][1].width.k = "int"
            /\ arg.rows[r][1].width.n >= 500)

----------------------------------------------------------------------------
(* The wrapper unwrapper: _unwrap_ciela2014_wrapper_tables                 *)

\* the children of a cell: a paragraph, a nested table, an element that
\* holds a nested table, a text and a whitespace-only text
Para == [kind |-> "elem", id |-> <<>>]
Inner == [kind |-> "inner", id |-> <<>>]
Holder == [kind |-> "holder", id |-> <<>>]
Words == [kind |-> "words", id |-> <<>>]
Blank == [kind |-> "blank", id |-> <<>>]

\* isinstance(elem, Tag)
IsTag(elem) == elem.kind \in {"elem", "inner", "holder"}

\* a border declaration of a cell's style: none, 'medium none', or a size
NoBorder == [k |-> "none", unit |-> ""]
MediumNone == [k |-> "medium none", unit |-> ""]
Sized(u) == [k |-> "sized", unit |-> u]

\* the width a cell declares: WIDTH: <n>pt in its style, or a width attribute
NoWidth == [k |-> "none", n |-> 0]
StyleWidth(v) == [k |-> "style", n |-> v]
AttrWidth(v) == [k |-> "attr", n |-> v]

WCell(tg, b, w, ch) == [tag |-> tg, border |-> b, width |-> w, children |-> ch]

Section(tg, rws) == [tag |-> tg, rows |-> rws]

WTable(ident, fmt, secs) ==
  [kind |-> "wtable", id |-> ident, tableformat |-> fmt, sections |-> secs]

IsWrapperCandidate(node) == node.kind = "wtable"

\* wrapper_table.find('tbody'): the index of the first tbody, 0 if none (the
\* nested tables of the cells hold no tbody)
FirstTbody(t) ==
  LET hits == {k \in 1..Len(t.sections) : t.sections[k].tag = "tbody"}
  IN IF hits = {} THEN 0 ELSE SetMin(hits)

\* direct_trs, the rows of the first tbody
DirectTrs(t) == IF FirstTbody(t) = 0 THEN <<>> ELSE t.sections[FirstTbody(t)].rows

\* direct_tds of a row: its children named td
DirectTds(tr) == SelectSeq(tr, LAMBDA c : c.tag = "td")

\* a border value that names a size
NamesSize(b) == b.k = "sized"

\* has_visible_border: a border value without 'medium none' in which
\* \d+\s*pt is found
HasVisibleBorder(td) == td.border.k = "sized" /\ td.border.unit = "pt"

\* all_tds_are_wrappers after the loop over direct_trs
AllTdsAreWrappers(direct_trs) ==
  \A r \in 1..Len(direct_trs) :
    /\ Len(DirectTds(direct_trs[r])) = 1
    /\ ~HasVisibleBorder(DirectTds(direct_trs[r])[1])

\* all_content: the children of the single td of each row
AllContent(direct_trs) ==
  Concat([r \in 1..Len(direct_trs) |-> DirectTds(direct_trs[r])[1].children])

\* has_inner_table
HasInnerTable(all_content) ==
  \E k \in 1..Len(all_content) : all_content[k].kind \in {"inner", "holder"}

\* td_width: '<n>pt' from the style of the first td of the first row, else
\* '<width>px' from its width attribute, else None
TdWidth(direct_trs) ==
  LET first_td == DirectTds(direct_trs[1])[1]
  IN IF first_td.width.k = "style" THEN [unit |-> "pt", n |-> first_td.width.n]
     ELSE IF first_td.width.k = "attr" THEN [unit |-> "px", n |-> first_td.width.n]
     ELSE [unit |-> "none", n |-> 0]

\* the elements that are moved: tags, and strings with str(elem).strip()
MovedContent(all_content) ==
  SelectSeq(all_content, LAMBDA elem : IsTag(elem) \/ elem.kind = "words")

WrapperDiv(td_width, ch) == [kind |-> "div", width |-> td_width, children |-> ch]

\* the test the loop body applies before it moves anything (lines 360-415)
IsWrapperTable(t) ==
  /\ FirstTbody(t) # 0
  /\ DirectTrs(t) # <<>>
  /\ AllTdsAreWrappers(DirectTrs(t))
  /\ HasInnerTable(AllContent(DirectTrs(t)))

\* what stands in the place of a wrapper table after lines 417-454
UnwrappedContent(t) ==
  LET td_width == TdWidth(DirectTrs(t))
      moved == MovedContent(AllContent(DirectTrs(t)))
  IN IF td_width.unit # "none" THEN <<WrapperDiv(td_width, moved)>> ELSE moved

\* del table['tableformat']
WithoutFormat(node) ==
  IF IsWrapperCandidate(node) THEN [node EXCEPT !.tableformat = "none"] ELSE node

\* position of the wrapper candidate with a given id, 0 when it is gone
WPosOf(d, ident) ==
  LET hits == {k \in 1..Len(d) : IsWrapperCandidate(d[k]) /\ d[k].id = ident}
  IN IF hits = {} THEN 0 ELSE SetMin(hits)

----------------------------------------------------------------------------
(* SpecUnwrap: the unwrapper on a document of one table between two texts  *)

MaxWrapperRows == 2

WrapperRowPool ==
  { \* a paragraph and a nested table
    <<WCell("td", NoBorder, NoWidth, <<Para, Inner>>)>>,
    \* a width in the style; whitespace, a nested table, a text
    <<WCell("td", MediumNone, StyleWidth(400), <<Blank, Inner, Words>>)>>,
    \* a width attribute; an element that holds a nested table
    <<WCell("td", NoBorder, AttrWidth(300), <<Holder>>)>>,
    \* borders of 1pt and of 1px
    <<WCell("td", Sized("pt"), NoWidth, <<Inner>>)>>,
    <<WCell("td", Sized("px"), NoWidth, <<Inner>>)>>,
    \* text only
    <<WCell("td", NoBorder, NoWidth, <<Words>>)>>,
    \* a header cell beside the cell with the nested table
    <<WCell("th", NoBorder, NoWidth, <<Words>>), WCell("td", NoBorder, NoWidth, <<Inner>>)>> }

\* a head section of one header cell, a second body of one paragraph
HeadSection == Section("thead", <<<<WCell("th", NoBorder, NoWidth, <<Words>>)>>>>)
SecondBody == Section("tbody", <<<<WCell("td", NoBorder, NoWidth, <<Para>>)>>>>)

WrapperLayouts ==
  {<<>>} \cup
  UNION {{<<Section("tbody", rws)>>,
          <<HeadSection, Section("tbody", rws)>>,
          <<Section("tbody", rws), SecondBody>>} :
         rws \in SeqsUpTo(WrapperRowPool, MaxWrapperRows)}

\* the id of a child of a cell is its place in the table
WithItemIds(secs) ==
  [se \in 1..Len(secs) |->
     [secs[se] EXCEPT !.rows =
        [r \in 1..Len(secs[se].rows) |->
           [c \in 1..Len(secs[se].rows[r]) |->
              [secs[se].rows[r][c] EXCEPT !.children =
                 [k \in 1..Len(secs[se].rows[r][c].children) |->
                    [secs[se].rows[r][c].children[k] EXCEPT !.id = <<se, r, c, k>>]]]]]]]

UInit ==
  /\ pc = "u_start"
  /\ \E secs \in WrapperLayouts : \E fmt \in {"ciela2014", "other"} :
       doc = <<Text, WTable(2, fmt, WithItemIds(secs)), Text>>
  /\ arg = doc
  /\ all_tables = <<>>
  /\ i = 0
  /\ processed = {}
  /\ mid = Idle
  /\ norm = Idle
  /\ res = Idle
  /\ ghost = {}

\* ciela_tables = list(soup.find_all('table', attrs={'tableformat': 'ciela2014'}))
UStart ==
  /\ pc = "u_start"
  /\ LET found == SelectSeq(doc, LAMBDA node : IsWrapperCandidate(node)
                                                /\ node.tableformat = "ciela2014")
     IN all_tables' = [k \in 1..Len(found) |-> found[k].id]
  /\ i' = 0
  /\ pc' = "u_loop"
  /\ UNCHANGED <<doc, processed, arg, mid, norm, res, ghost>>

\* one iteration of the loop over ciela_tables
UnwrapStep ==
  /\ pc = "u_loop"
  /\ i < Len(all_tables)
  /\ LET at == WPosOf(doc, all_tables[i + 1])
         wrapper_table == doc[at]
     IN doc' = IF IsWrapperTable(wrapper_table)
               THEN SubSeq(doc, 1, at - 1) \o UnwrappedContent(wrapper_table)
                    \o SubSeq(doc, at + 1, Len(doc))
               ELSE [doc EXCEPT ![at] = WithoutFormat(wrapper_table)]
  /\ i' = i + 1
  /\ UNCHANGED <<pc, all_tables, processed, arg, mid, norm, res, ghost>>

\* the loop over the tables that still carry a tableformat attribute
UStripFormat ==
  /\ pc = "u_loop"
  /\ i = Len(all_tables)
  /\ doc' = [k \in 1..Len(doc) |-> WithoutFormat(doc[k])]
  /\ pc' = "u_done"
  /\ UNCHANGED <<all_tables, i, processed, arg, mid, norm, res, ghost>>

UNext == UStart \/ UnwrapStep \/ UStripFormat

SpecUnwrap == UInit /\ [][UNext]_vars

\* the cells of a table, of every section, in document order
WrapperCells(t) ==
  Concat([se \in 1..Len(t.sections) |-> Concat(t.sections[se].rows)])

\* the wrapper pattern: every row has exactly one cell, no cell declares a
\* border that names a size, and the cells' contents hold a nested table
MatchesWrapperPattern(t) ==
  /\ \A se \in 1..Len(t.sections) : \A r \in 1..Len(t.sections[se].rows) :
       Len(t.sections[se].rows[r]) = 1
  /\ \A c \in 1..Len(WrapperCells(t)) : ~NamesSize(WrapperCells(t)[c].border)
  /\ \E c \in 1..Len(WrapperCells(t)) : HasInnerTable(WrapperCells(t)[c].children)

\* C19: a table that does not match the wrapper pattern is in the document
\* after the step as it was before: same attributes, same children, same
\* position
C19_NonMatchesUntouched ==
  pc = "u_done" =>
    \A k \in 1..Len(arg) :
      (IsWrapperCandidate(arg[k]) /\ ~MatchesWrapperPattern(arg[k])) =>
        /\ Len(doc) = Len(arg)
        /\ doc[k] = arg[k]

\* the children of all cells that are elements or texts with more than
\* whitespace, in document order
ContentOf(t) ==
  MovedContent(Concat([c \in 1..Len(WrapperCells(t)) |-> WrapperCells(t)[c].children]))

\* C20: when a table that matches the wrapper pattern is unwrapped, every
\* element and every text with more than whitespace of every cell, of any
\* section and tag, is in the output once and in order: in one container
\* with the first cell's declared width, or in the wrapper's place when the
\* first cell declares none
C20_UnwrapLosesNothing ==
  pc = "u_done" =>
    \A k \in 1..Len(arg) :
      (/\ IsWrapperCandidate(arg[k])
       /\ MatchesWrapperPattern(arg[k])
       /\ WPosOf(doc, arg[k].id) = 0) =>
        LET first_cell == WrapperCells(arg[k])[1]
            content == ContentOf(arg[k])
            put == IF first_cell.width.k = "none" THEN content
                   ELSE <<WrapperDiv([unit |-> IF first_cell.width.k = "style"
                                               THEN "pt" ELSE "px",
                                      n |-> first_cell.width.n], content)>>
        IN doc = SubSeq(arg, 1, k - 1) \o put \o SubSeq(arg, k + 1, Len(arg))

----------------------------------------------------------------------------
(* SpecResolver: one table of up to MaxResolverRows rows through the       *)
(* extractor and the resolver.  With five rows and more the rows can have  *)
(* the irregular shape that _is_form_table looks for (lines 1177-1179).    *)

MaxResolverRows == 5

ResolverRowPool ==
  { \* a column-index row with widths
    <<TD(<<"1">>, Cls("C", 15), 100), TD(<<"2">>, Cls("C", 15), 200)>>,
    \* one cell that holds a form keyword
    <<TD(<<"f", "o">>, Cls("L", 15), 300)>>,
    \* rows of three, four and five cells without widths
    <<TDnw(<<"a">>, Cls("L", 15)), TDnw(<<"b">>, Cls("L", 15)),
      TDnw(<<"c">>, Cls("L", 15))>>,
    <<TDnw(<<"a">>, Cls("L", 15)), TDnw(<<"b">>, Cls("L", 15)),
      TDnw(<<"c">>, Cls("L", 15)), TDnw(<<"d">>, Cls("L", 15))>>,
    <<TDnw(<<"a">>, Cls("L", 15)), TDnw(<<"b">>, Cls("L", 15)),
      TDnw(<<"c">>, Cls("L", 15)), TDnw(<<"d">>, Cls("L", 15)),
      TDnw(<<"e">>, Cls("L", 15))>>,
    \* a row without any border
    <<TDnw(<<"a">>, NoClass)>>,
    \* a column-index row whose first cell declares the width 0
    <<TD(<<"1">>, Cls("C", 15), 0), TD(<<"2">>, Cls("C", 15), 200)>> }

RInit ==
  /\ pc = "t_start"
  /\ \E rws \in SeqsUpTo(ResolverRowPool, MaxResolverRows) \ {<<>>} :
       arg = Table(1, "defFix", rws)
  /\ mid = Idle
  /\ norm = Idle
  /\ res = Idle
  /\ ghost = {}
  /\ doc = Idle
  /\ all_tables = Idle
  /\ i = 0
  /\ processed = {}

SpecResolver == RInit /\ [][TNext]_vars

\* the claim's test of a row: >= 2 cells, at least 70% of them pure integers
IntegerCells(row) ==
  {c \in 1..Len(row.cells) : IsDigitText(StripText(row.cells[c].text))}

QualifiesAsColumnIndex(row) ==
  /\ Len(row.cells) >= 2
  /\ 100 * Cardinality(IntegerCells(row)) >= 70 * Len(row.cells)

QualifyingRows(rows) == {r \in 1..Len(rows) : QualifiesAsColumnIndex(rows[r])}

\* the row classes the claim gives a table: 0 when no row qualifies
FlagsAsClaimed(rows, got) ==
  LET first == IF QualifyingRows(rows) = {} THEN 0 ELSE SetMin(QualifyingRows(rows))
  IN /\ Len(got) = Len(rows)
     /\ \A r \in 1..Len(got) :
          /\ got[r].is_header = (first # 0 /\ r < first)
          /\ got[r].is_column_numbers = (r = first)

\* C21: the column-index row of a resolved table is the first extracted row
\* with >= 2 cells of which at least 70% are pure integers; the rows before
\* it are header rows, it alone is marked column-index, the rows after it
\* are data rows, and without such a row no row is header or column-index
C21_ColumnIndexRow ==
  pc = "t_done" => FlagsAsClaimed(mid, res.rows)


\* the tr elements of a table that the extractor makes rows of, in order
SourceRows(t) == SelectSeq(t.rows, LAMBDA tr : CellsOf(tr) # <<>>)

\* a row in which every cell declares a width: a width attribute of digits
AllDeclareWidth(tr) == \A c \in 1..Len(tr) : tr[c].width.k = "int"

DeclaredWidths(tr) == [c \in 1..Len(tr) |-> tr[c].width.n]

\* the canonical widths the claim gives a table; <<>> when no row qualifies
CanonicalAsClaimed(t, rows) ==
  LET src == SourceRows(t)
      first == IF QualifyingRows(rows) = {} THEN 0 ELSE SetMin(QualifyingRows(rows))
      ok == {r \in 1..Len(src) : AllDeclareWidth(src[r])}
      most == {r \in ok : \A q \in ok : Len(src[q]) <= Len(src[r])}
  IN IF first # 0 /\ AllDeclareWidth(src[first]) THEN DeclaredWidths(src[first])
     ELSE IF most = {} THEN <<>>
     ELSE DeclaredWidths(src[SetMin(most)])

\* a cell apart from its header flag, which the split into rows sets
SameButHeaderFlag(a, b) == [a EXCEPT !.is_header = FALSE] = [b EXCEPT !.is_header = FALSE]

PassedThrough(rows, got) ==
  /\ FlagsAsClaimed(rows, got)
  /\ \A r \in 1..Len(rows) :
       /\ Len(got[r].cells) = Len(rows[r].cells)
       /\ \A c \in 1..Len(rows[r].cells) :
            SameButHeaderFlag(got[r].cells[c], rows[r].cells[c])

\* C22: the colspan inference runs with the widths of the column-index row
\* when every cell of it declares a width, otherwise with the widths of the
\* earliest of the rows with the most cells among the rows whose cells all
\* declare a width; when no row qualifies the inference is skipped and the
\* rows pass through with their cells unchanged, split into header rows,
\* column-index row and data rows
C22_CanonicalWidths ==
  LET claimed == CanonicalAsClaimed(arg, mid)
  IN /\ pc = "t_norm" =>
          /\ claimed # <<>>
          /\ FindCanonicalWidths(mid, ColNumbersIdx(mid)) = claimed
     /\ (pc = "t_done" /\ norm = Idle) =>
          /\ claimed = <<>>
          /\ PassedThrough(mid, res.rows)


----------------------------------------------------------------------------
(* SpecColspan: the colspan inference (_normalize_row_cells, lines         *)
(* 1265-1339) on tables of a column-index row and one more row, before or  *)
(* after it, whose cells declare widths on and between the canonical       *)
(* boundaries, or none.  Every cell has a border, so _merge_tables hands   *)
(* the rows of every such table to the resolver.                           *)

MaxRowCells == 3

CanonicalChoices == {100, 200}

\* column-index rows "1 2" and "1 2 3": with canonical widths, or with a
\* cell that declares none
IndexRows ==
  {<<TD(<<"1">>, Cls("C", 15), w[1]), TD(<<"2">>, Cls("C", 15), w[2])>> :
     w \in [1..2 -> CanonicalChoices]}
  \cup {<<TD(<<"1">>, Cls("C", 15), w[1]), TD(<<"2">>, Cls("C", 15), w[2]),
          TD(<<"3">>, Cls("C", 15), w[3])>> : w \in [1..3 -> CanonicalChoices]}
  \cup {<<TDnw(<<"1">>, Cls("C", 15)), TD(<<"2">>, Cls("C", 15), 100)>>,
        <<TDnw(<<"1">>, Cls("C", 15)), TDnw(<<"2">>, Cls("C", 15))>>}

WidthChoices == {NoAttr, IntAttr(50), IntAttr(100), IntAttr(200), IntAttr(300)}

CellLetters == <<"a", "b", "c", "d">>

\* the row of cells "a", "b", ... with the given width attributes
WidthRow(w) ==
  [c \in 1..Len(w) |-> Cell("td", <<CellLetters[c]>>, Cls("L", 15), w[c])]

KInit ==
  /\ pc = "t_start"
  /\ \E ir \in IndexRows, w \in SeqsUpTo(WidthChoices, MaxRowCells) \ {<<>>} :
       arg \in {Table(1, "defFix", <<ir, WidthRow(w)>>),
                Table(1, "defFix", <<WidthRow(w), ir>>)}
  /\ mid = Idle
  /\ norm = Idle
  /\ res = Idle
  /\ ghost = {}
  /\ doc = Idle
  /\ all_tables = Idle
  /\ i = 0
  /\ processed = {}

KNext == TExtractRows \/ TSimpleTable \/ TColspan \/ TRowspan

SpecColspan == KInit /\ [][KNext]_vars

RECURSIVE SumWidths(_)
SumWidths(ws) == IF ws = <<>> THEN 0 ELSE Head(ws) + SumWidths(Tail(ws))

\* the canonical cumulative boundaries, numbered 0..N
BoundaryAt(widths, k) == SumWidths(SubSeq(widths, 1, k))

Distance(a, b) == IF a < b THEN b - a ELSE a - b

\* the index of the boundary nearest to a position, the lower one of two
\* equidistant boundaries
NearestBoundary(widths, position) ==
  CHOOSE k \in 0..Len(widths) :
    /\ \A q \in 0..Len(widths) :
         Distance(BoundaryAt(widths, k), position) <= Distance(BoundaryAt(widths, q), position)
    /\ \A q \in 0..(k - 1) :
         Distance(BoundaryAt(widths, q), position) > Distance(BoundaryAt(widths, k), position)

\* the start of a cell: the sum of the widths of the cells before it
StartOf(tr, c) ==
  SumWidths([q \in 1..(c - 1) |-> IF tr[q].width.k = "int" THEN tr[q].width.n ELSE 0])

ColspanAsClaimed(tr, c, widths) ==
  IF tr[c].width.k # "int" THEN 1
  ELSE LET s == NearestBoundary(widths, StartOf(tr, c))
           e == NearestBoundary(widths, StartOf(tr, c) + tr[c].width.n)
       IN IF e - s > 1 THEN e - s ELSE 1

\* C23: after the colspan inference a cell with a declared width has colspan
\* max(1, e - s), s and e the indexes in 0..N of the canonical boundaries
\* nearest to its start (the sum of the widths of the cells before it) and
\* to its end, the lower index of two equidistant boundaries; a cell
\* without a declared width has colspan 1
C23_ColspanFromNearestBoundaries ==
  pc = "t_norm" =>
    LET widths == CanonicalAsClaimed(arg, mid)
        src == SourceRows(arg)
    IN \A r \in 1..Len(norm) : \A c \in 1..Len(norm[r].cells) :
         norm[r].cells[c].colspan = ColspanAsClaimed(src[r], c, widths)


----------------------------------------------------------------------------
(* SpecRender: the tables of SpecTable through the extractor, the resolver *)
(* and the renderer (NormalizedTable.to_html, called at line 492).  The    *)
(* markup is kept as a structure: the caption, the rows of the thead block *)
(* and of the tbody block, and each cell as its tag, its attributes, the   *)
(* declarations of its style attribute and its text.                       *)

AlignDecl(name) ==
  CASE name = "center" -> Decl("text-align: center")
    [] name = "right" -> Decl("text-align: right")
    [] name = "justify" -> Decl("text-align: justify")
    [] name = "left" -> Decl("text-align: left")

\* NormalizedCell.to_html
CellToHtml(cell) ==
  LET effective_align == IF cell.is_header THEN "center" ELSE cell.align
  IN [tag |-> IF cell.is_header THEN "th" ELSE "td",
      colspan |-> IF cell.colspan > 1 THEN IntAttr(cell.colspan) ELSE NoAttr,
      rowspan |-> IF cell.rowspan > 1 THEN IntAttr(cell.rowspan) ELSE NoAttr,
      style |-> (IF cell.width # 0 THEN <<WidthDecl(cell.width)>> ELSE <<>>)
                \o (IF effective_align # "left" THEN <<AlignDecl(effective_align)>>
                    ELSE <<>>)
                \o BorderDecls(cell.border_code),
      text |-> cell.text]

\* NormalizedRow.to_html
RowToHtml(row) == [c \in 1..Len(row.cells) |-> CellToHtml(row.cells[c])]

\* NormalizedTable.to_html; a block without rows is not written
TableToHtml(nt, include_title) ==
  [caption |-> IF include_title THEN nt.title ELSE NoTitle,
   thead |-> [r \in 1..Len(HeaderRows(nt)) |-> RowToHtml(HeaderRows(nt)[r])],
   tbody |-> [r \in 1..Len(DataRows(nt)) |-> RowToHtml(DataRows(nt)[r])]]

\* new_html = normalized.to_html(include_title=True, include_notes=False)
TRender ==
  /\ pc = "t_done"
  /\ doc' = TableToHtml(res, TRUE)
  /\ pc' = "t_html"
  /\ UNCHANGED <<arg, mid, norm, res, ghost, all_tables, i, processed>>

RenderNext == TNext \/ TRender

SpecRender == TInit /\ [][RenderNext]_vars

\* the alignment a written cell has: that of its text-align declaration,
\* left without one
EmittedAlign(el) ==
  IF \E k \in 1..Len(el.style) : el.style[k] = AlignDecl("center") THEN "center"
  ELSE IF \E k \in 1..Len(el.style) : el.style[k] = AlignDecl("right") THEN "right"
  ELSE IF \E k \in 1..Len(el.style) : el.style[k] = AlignDecl("justify") THEN "justify"
  ELSE "left"

\* C24: every cell written into the header block (header rows and the
\* column-index row) is a th element and is centered whatever alignment it
\* stores; every cell written into the body block is a td element and has
\* its stored alignment
C24_HeaderCellsCentered ==
  pc = "t_html" =>
    /\ \A r \in 1..Len(doc.thead) : \A c \in 1..Len(doc.thead[r]) :
         /\ doc.thead[r][c].tag = "th"
         /\ EmittedAlign(doc.thead[r][c]) = "center"
    /\ \A r \in 1..Len(doc.tbody) : \A c \in 1..Len(doc.tbody[r]) :
         /\ doc.tbody[r][c].tag = "td"
         /\ EmittedAlign(doc.tbody[r][c]) = DataRows(res)[r].cells[c].align


----------------------------------------------------------------------------
(* SpecDetect: _find_table_group (lines 822-864) on a placeholder table    *)
(* among siblings of every kind: placeholders, data tables, tables of      *)
(* another class, line breaks, whitespace, text and other elements         *)

MaxDetectNodes == 5

DetectNodes ==
  { Table(0, "def", <<>>),
    Table(0, "defFix", <<<<TD(<<"a">>, Cls("C", 15), 100)>>>>),
    Table(0, "other", <<<<TD(<<"a">>, Cls("C", 15), 100)>>>>),
    Br, Ws, Text, Elem }

\* i is the position of def_table among its siblings
DInit ==
  /\ pc = "d_start"
  /\ doc \in {WithIds(d) : d \in SeqsUpTo(DetectNodes, MaxDetectNodes)}
  /\ i \in {k \in 1..Len(doc) : IsSourceTable(doc[k]) /\ doc[k].class = "def"}
  /\ arg = doc
  /\ all_tables = <<>>
  /\ processed = {}
  /\ mid = Idle
  /\ norm = Idle
  /\ res = Idle
  /\ ghost = {}

\* table_group = self._find_table_group(table)
DFindTableGroup ==
  /\ pc = "d_start"
  /\ res' = [group |-> FindTableGroup(doc, i)]
  /\ pc' = "d_done"
  /\ UNCHANGED <<doc, i, arg, all_tables, processed, mid, norm, ghost>>

DNext == DFindTableGroup

SpecDetect == DInit /\ [][DNext]_vars

IsDataNode(node) == IsSourceTable(node) /\ node.class = "defFix"

\* only whitespace text, line breaks and data tables lie between two positions
OnlySeparatorsBetween(d, a, b) ==
  \A q \in (a + 1)..(b - 1) : d[q].kind \in {"ws", "br"} \/ IsDataNode(d[q])

\* the positions of the data tables of the maximal run after a placeholder
RunAfter(d, p) ==
  {k \in (p + 1)..Len(d) : IsDataNode(d[k]) /\ OnlySeparatorsBetween(d, p, k)}

\* where the detection stops at the latest: the first text with more than
\* whitespace or the first element that is no table and no line break
StopsAfter(d, p) ==
  {k \in (p + 1)..Len(d) : d[k].kind \in {"text", "elem"}}

\* C25: the group the detector returns for a placeholder is the placeholder
\* followed by the maximal run of data tables separated from it and from
\* each other only by whitespace text and line breaks, in document order;
\* no table after the first text or other element is in it; a placeholder
\* with no such data table gives no group
C25_GroupIsMaximalRun ==
  pc = "d_done" =>
    LET run == RunAfter(doc, i)
        group == res.group
    IN /\ run = {} => group = <<>>
       /\ run # {} =>
            /\ Len(group) = Cardinality(run) + 1
            /\ group[1] = i
            /\ {group[k] : k \in 2..Len(group)} = run
            /\ \A k \in 2..Len(group) : group[k - 1] < group[k]
       /\ \A k \in 1..Len(group) : \A s \in StopsAfter(doc, i) : group[k] < s

\* a group of a placeholder and a data table behind a line break, and a
\* data table after a text that is left out
C25_Witness ==
  /\ pc = "d_done"
  /\ Len(res.group) = 2
  /\ \E q \in (i + 1)..(res.group[2] - 1) : doc[q].kind = "br"
  /\ \E s \in StopsAfter(doc, i) : \E k \in (s + 1)..Len(doc) : IsDataNode(doc[k])


----------------------------------------------------------------------------
(* SpecHidden: normalize_html on a document that holds one defFix table    *)
(* and no placeholder: the group pass finds no group, and the hidden-      *)
(* border pass (lines 680-770) normalizes the table or styles it           *)

MaxHiddenRows == 3

\* a row of n cells, each with the class C<code>
PlainRow(n, code) == [c \in 1..n |-> TD(<<CellLetters[c]>>, Cls("C", code), 100)]

HiddenRowPool ==
  {PlainRow(1, 15), PlainRow(1, 0), PlainRow(2, 15), PlainRow(2, 0),
   PlainRow(3, 15), PlainRow(4, 15), <<TD(<<"a">>, Cls("C", 15), 100),
   TD(<<"b">>, Cls("C", 15), 100), TD(<<"c">>, Cls("C", 15), 100),
   TD(<<"d">>, Cls("C", 15), 100), TD(<<"e">>, Cls("C", 15), 100)>>, <<>>}

BInit ==
  /\ pc = "start"
  /\ \E rws \in SeqsUpTo(HiddenRowPool, MaxHiddenRows) :
       doc = <<Table(1, "defFix", rws)>>
  /\ arg = doc
  /\ all_tables = <<>>
  /\ i = 0
  /\ processed = {}
  /\ mid = Idle
  /\ norm = Idle
  /\ res = Idle
  /\ ghost = {}

SpecHidden == BInit /\ [][Next]_vars

\* the number of cells of each row that has cells
RowSizes(t) == {Len(SourceRows(t)[r]) : r \in 1..Len(SourceRows(t))}

\* the data-table test as the claim states it
DataTableAsClaimed(t) ==
  /\ Len(SourceRows(t)) >= 2
  /\ HasHiddenBorders(t)
  /\ LET max_cols == SetMax(RowSizes(t))
         min_cols == SetMin(RowSizes(t))
     IN max_cols = min_cols \/ (min_cols >= 2 /\ max_cols <= 2 * min_cols)

\* C26: a table without border attribute some cell of which has a border
\* code > 0 is normalized as a data table exactly when it has >= 2 rows and
\* its per-row cell counts satisfy max_cols = min_cols, or min_cols >= 2 and
\* max_cols <= 2 * min_cols; a bordered table whose rows all have one cell
\* is therefore normalized
C26_DataTableTest ==
  (pc = "done" /\ HasHiddenBorders(arg[1])) =>
     (doc[1].kind = "ntable") = DataTableAsClaimed(arg[1])


----------------------------------------------------------------------------
(* Further properties of Spec: the handlers of normalize_html              *)

\* the hidden-border pass has visited the table: it normalized or styled it
VisitedByHiddenPass(ident) ==
  /\ pc \in {"hidden", "done"}
  /\ \E k \in 1..i : all_tables[k] = ident

\* the group pass merged the table's group or gave it the group fallback
HandledByGroupPass(ident) == ident \in processed

\* the styles of the cells of the source tables of a document
CellStyles(d) ==
  UNION {UNION {{d[k].rows[r][c].style : c \in 1..Len(d[k].rows[r])} :
                  r \in 1..Len(d[k].rows)} :
           k \in {q \in 1..Len(d) : IsSourceTable(d[q])}}

DeclaredOnce(style) ==
  \A a, b \in 1..Len(style) : style[a] = style[b] => a = b

\* C27: in one run of normalize_html no source table is handled by the group
\* pass (merge or group fallback) and visited by the hidden-border pass as
\* well, no cell's style gets the same width or border declaration twice,
\* and the candidates of the hidden-border pass are source tables only,
\* never a table written by a merge
C27_OneHandlerPerTable ==
  /\ \A k \in 1..Len(arg) :
       IsSourceTable(arg[k]) =>
         ~(HandledByGroupPass(arg[k].id) /\ VisitedByHiddenPass(arg[k].id))
  /\ \A style \in CellStyles(doc) : DeclaredOnce(style)
  /\ pc \in {"hidden", "done"} =>
       \A k \in 1..Len(all_tables) :
         \E q \in 1..Len(arg) : IsSourceTable(arg[q]) /\ arg[q].id = all_tables[k]


----------------------------------------------------------------------------
(* Further properties of SpecGroups: the scan of the group pass.  A        *)
(* table's id is its position in the document the run started with (arg).  *)

\* the placeholders of the starting document that head a group
GroupHeads == {k \in 1..Len(arg) : IsSourceTable(arg[k]) /\ arg[k].class = "def"
                                    /\ FindTableGroup(arg, k) # <<>>}

\* the tables of the groups of the starting document
GroupMembers == UNION {Range(FindTableGroup(arg, k)) : k \in GroupHeads}

\* an iteration of the scan that merges or styles the group of a placeholder
HandlesGroup(h) ==
  /\ pc = "groups"
  /\ i < Len(all_tables)
  /\ all_tables[i + 1] = h
  /\ processed' # processed

\* the group pass is at its end
ScanOver == pc \in {"hidden", "done"}

\* C28: the scan handles the group of every placeholder that heads one, once
\* and in document order: an iteration that handles a group handles that of
\* a heading placeholder not handled before, after all groups handled
\* before it, and marks exactly its tables; when the scan is over every
\* group has been handled; and the scan comes to its end
C28_EveryGroupOnce ==
  /\ [][\A h \in 1..MaxNodes :
          HandlesGroup(h) =>
            /\ h \in GroupHeads
            /\ h \notin processed
            /\ \A p \in processed : p < h
            /\ processed' = processed \cup Range(FindTableGroup(arg, h))]_vars
  /\ [](ScanOver => processed = GroupMembers)
  /\ (pc = "start") ~> ScanOver

\* two groups were handled, the first by the fallback and the second by a
\* merge at a scan index above 0, after which the index went back to 1
C28_Witness ==
  /\ ScanOver
  /\ Cardinality(GroupHeads) = 2
  /\ processed = GroupMembers
  /\ \E k \in 1..Len(doc) : doc[k].kind = "ntable"
  /\ \E k \in 1..Len(doc) : IsSourceTable(doc[k]) /\ doc[k].id \in processed

----------------------------------------------------------------------------
(* Further properties of SpecTable: the header block as a grid             *)

\* the rows of the header block: the header rows and the column-index row
HeaderBlock == {r \in 1..Len(norm) : norm[r].is_header \/ norm[r].is_column_numbers}

\* the row and the place in it that a cell had before _apply_rowspan
OriginalPlace(ident) ==
  CHOOSE p \in UNION {{<<r, k>> : k \in 1..Len(norm[r].cells)} : r \in 1..Len(norm)} :
    norm[p[1]].cells[p[2]].id = ident

\* the logical columns a cell took in the grid of the rows before merging
LogicalColumns(r, k) == {c \in DOMAIN BuildGrid(norm)[r] : BuildGrid(norm)[r][c] = k}

\* the grid positions a cell of the result covers: its logical columns, in
\* its own row and in the rowspan - 1 rows below
Covered(cell) ==
  LET p == OriginalPlace(cell.id)
  IN {<<r, c>> : r \in p[1]..(p[1] + cell.rowspan - 1), c \in LogicalColumns(p[1], p[2])}

\* the cells of the header block that the result keeps
KeptHeaderCells ==
  {cell \in CellsOfRows(res.rows) : OriginalPlace(cell.id)[1] \in HeaderBlock}

\* the id of the cell that stood at a grid position before merging, 0 if none
OriginalAt(r, c) ==
  IF r \in 1..Len(norm) /\ c \in DOMAIN BuildGrid(norm)[r]
  THEN norm[r].cells[BuildGrid(norm)[r][c]].id ELSE 0

\* C29: after header rowspan inference no logical grid position of the
\* header block is covered by more than one cell: a cell whose rowspan was
\* extended covers, in the rows below it, only positions whose original
\* cells were removed, also when the colspans of the cells differ
C29_HeaderGridValid ==
  InferenceRan =>
    /\ \A a, b \in KeptHeaderCells : a.id # b.id => Covered(a) \cap Covered(b) = {}
    /\ \A a \in KeptHeaderCells :
         a.absorbed # <<>> =>
           \A p \in Covered(a) :
             p[1] > OriginalPlace(a.id)[1] /\ OriginalAt(p[1], p[2]) # 0
               => OriginalAt(p[1], p[2]) \in ghost

----------------------------------------------------------------------------
(* Further properties of SpecColspan: what the inference keeps             *)

\* the source row that supplies the canonical widths, 0 when no row does
CanonicalSupplier(t, rows) ==
  LET src == SourceRows(t)
      first == IF QualifyingRows(rows) = {} THEN 0 ELSE SetMin(QualifyingRows(rows))
      ok == {r \in 1..Len(src) : AllDeclareWidth(src[r])}
      most == {r \in ok : \A q \in ok : Len(src[q]) <= Len(src[r])}
  IN IF first # 0 /\ AllDeclareWidth(src[first]) THEN first
     ELSE IF most = {} THEN 0
     ELSE SetMin(most)

\* every cell of the row declares a positive width, and the end of every
\* cell lies on a canonical boundary, the end of the last cell on the last
FitsCanonicalBoundaries(tr, widths) ==
  /\ AllDeclareWidth(tr)
  /\ \A c \in 1..Len(tr) : tr[c].width.n > 0
  /\ \A c \in 1..Len(tr) :
       \E k \in 1..Len(widths) : StartOf(tr, c + 1) = BoundaryAt(widths, k)
  /\ StartOf(tr, Len(tr) + 1) = BoundaryAt(widths, Len(widths))

SumColspans(cells) == SumWidths([c \in 1..Len(cells) |-> cells[c].colspan])

\* C30: the colspan inference keeps the number, the order and the text of
\* the cells of every row; in a row whose cells all declare positive widths
\* and end on canonical boundaries, the last on the canonical total, the
\* inferred colspans add up to the number of canonical columns; every cell
\* of the row that supplied the canonical widths gets colspan 1
C30_ColspansFillCanonicalColumns ==
  pc = "t_norm" =>
    LET widths == CanonicalAsClaimed(arg, mid)
        src == SourceRows(arg)
    IN /\ Len(norm) = Len(mid)
       /\ \A r \in 1..Len(norm) :
            /\ RowIds(norm[r]) = RowIds(mid[r])
            /\ \A c \in 1..Len(norm[r].cells) :
                 norm[r].cells[c].text = mid[r].cells[c].text
            /\ FitsCanonicalBoundaries(src[r], widths) =>
                 SumColspans(norm[r].cells) = Len(widths)
            /\ r = CanonicalSupplier(arg, mid) =>
                 \A c \in 1..Len(norm[r].cells) : norm[r].cells[c].colspan = 1

\* the inference ran on a row of fewer cells than canonical columns that
\* fits the canonical boundaries, so that a cell of it spans several columns
C30_Witness ==
  /\ pc = "t_norm"
  /\ \E r \in 1..Len(norm) :
       /\ r # CanonicalSupplier(arg, mid)
       /\ FitsCanonicalBoundaries(SourceRows(arg)[r], CanonicalAsClaimed(arg, mid))
       /\ Len(norm[r].cells) >= 2
       /\ Len(norm[r].cells) < Len(CanonicalAsClaimed(arg, mid))
       /\ SumColspans(norm[r].cells) = Len(CanonicalAsClaimed(arg, mid))
====
